---- MODULE Spec2Model ----
(***************************************************************************)
(* Model of the KPI spreadsheet ingestion pipeline of src/main.py:         *)
(*   normalizar_valor      (ValueNormalizer)                               *)
(*   buscar_columna_valor  (ColumnLocator)                                 *)
(*   procesar_archivo_kpi  (SheetExtractor)                                *)
(*   unificar_datos_kpi    (Unifier)                                       *)
(*                                                                         *)
(* Representation.                                                         *)
(*   - A Python str is a sequence of one-character strings.                *)
(*   - A real number is a pair mant, dec standing for mant / 10^dec.       *)
(*   - A spreadsheet cell is a record: [kind |-> "nan"] (missing cell),    *)
(*     [kind |-> "str", s |-> chars] or [kind |-> "num", mant, dec].       *)
(*   - Optional[float] is [t |-> "None"] or [t |-> "float", v |-> n]; the  *)
(*     unit of n is 1/10000 for the fraction normalizar_valor returns and  *)
(*     1/100 for the percentage procesar_archivo_kpi stores.               *)
(*   - A parsed sheet (pandas DataFrame read with header inference) is     *)
(*     [kind |-> "df", cols |-> labels, rows |-> rows of cells]; bytes     *)
(*     pandas cannot read are [kind |-> "unreadable"].                     *)
(*   - round() is modelled on the exact decimal value, ties to even; the   *)
(*     input sets hold no value whose rounding is an exact decimal tie,    *)
(*     because there the binary double decides the direction.              *)
(***************************************************************************)
EXTENDS Integers, Sequences, FiniteSets, TLC

VARIABLES
    valor,              \* normalizar_valor: the argument
    valor_normalizado,  \* normalizar_valor: the outcome [raised, val]
    archivo,            \* procesar_archivo_kpi: argument archivo_bytes
    kpi_nombre,         \* procesar_archivo_kpi: argument kpi_nombre
    resultado,          \* procesar_archivo_kpi: the outcome [raised, val]
    archivos_data,      \* unificar_datos_kpi: argument archivos_data
    kpis_omitidos,      \* unificar_datos_kpi: argument kpis_omitidos
    registros,          \* unificar_datos_kpi: the outcome [raised, val]
    hoja,               \* buscar_columna_valor: argument df
    kpi_buscado,        \* buscar_columna_valor: argument kpi_name
    archivo_bytes,      \* detectar_tipo_kpi: argument archivo_bytes
    tipo_kpi,           \* detectar_tipo_kpi: the outcome [raised, val]
    preview_data,       \* main.py 933: the preview store, session id -> session
    reloj,              \* the second datetime.now() reads
    n8n,                \* the calls of the webhook in order: upload forwarded, reply
    llamada,            \* the payload of the last call of the webhook
    peticiones,         \* per client, the request in flight and its local variables
    respuesta,          \* the status code of the response sent last, 0 when a request has arrived since
    extracciones,       \* number of runs of unificar_datos_kpi by upload_files
    columna,            \* buscar_columna_valor: the outcome [raised, val]
    users,              \* the rows of the table users, the id of a row is its position
    TOKENS,             \* api_dashboard.py 43: the token store, token -> session
    utcnow,             \* datetime.utcnow(), in units of twelve hours
    emitidos,           \* number of tokens secrets.token_urlsafe has given
    respuesta_api,      \* the last request to the API of users and its status
    pedidas,            \* number of requests to the API of users and ticks so far
    pc                  \* position of the call under study

vars == <<valor, valor_normalizado, archivo, kpi_nombre, resultado,
          archivos_data, kpis_omitidos, registros, hoja, kpi_buscado,
          columna, archivo_bytes, tipo_kpi, preview_data, reloj, n8n,
          llamada, peticiones, respuesta, extracciones, users, TOKENS, utcnow,
          emitidos, respuesta_api, pedidas, pc>>

\* the variables of each function under study
varsNormalize == <<valor, valor_normalizado>>

varsExtract == <<archivo, kpi_nombre, resultado>>

varsUnify == <<archivos_data, kpis_omitidos, registros>>

varsLocate == <<hoja, kpi_buscado, columna>>

varsDetect == <<archivo_bytes, tipo_kpi>>

varsSesion == <<preview_data, reloj, n8n, llamada, peticiones, respuesta, extracciones>>

varsUsuarios == <<users, TOKENS, utcnow, emitidos, respuesta_api, pedidas>>

otrosSesion == <<varsNormalize, varsExtract, varsUnify, varsLocate, varsDetect, varsUsuarios>>

otrosUsuarios == <<varsNormalize, varsExtract, varsUnify, varsLocate, varsDetect, varsSesion>>

\* the variables a specification of one function leaves alone
otrosNormalize == <<varsExtract, varsUnify, varsLocate, varsDetect, varsSesion, varsUsuarios>>

otrosExtract == <<varsNormalize, varsUnify, varsLocate, varsDetect, varsSesion, varsUsuarios>>

otrosUnify == <<varsNormalize, varsExtract, varsLocate, varsDetect, varsSesion, varsUsuarios>>

otrosLocate == <<varsNormalize, varsExtract, varsUnify, varsDetect, varsSesion, varsUsuarios>>

otrosDetect == <<varsNormalize, varsExtract, varsUnify, varsLocate, varsSesion, varsUsuarios>>

-----------------------------------------------------------------------------
(* Bounds of the input sets.                                               *)

MaxLen == 3        \* length of the generated strings given to normalizar_valor
MaxMant == 1200    \* largest mantissa of the generated numeric cells
MaxDec == 3        \* most decimals of the generated numeric cells
MaxFilas == 3      \* most rows (after the header row) of a generated sheet
MaxArchivos == 2   \* most files handed to unificar_datos_kpi
MaxOmitidos == 1   \* most metrics in kpis_omitidos
MaxColumnas == 3   \* most columns of a sheet given to buscar_columna_valor
MaxFilasDetect == 3  \* most rows of a file given to detectar_tipo_kpi
MaxOperaciones == 4  \* most uploads, calls of the webhook and ticks of the clock together

-----------------------------------------------------------------------------
(* Python values.                                                          *)

None == [t |-> "None"]

Float(n) == [t |-> "float", v |-> n]

NaN == [kind |-> "nan"]

\* a cell holding a date (a pandas Timestamp)
Fecha == [kind |-> "fecha"]

Str(chars) == [kind |-> "str", s |-> chars]

Num(m, d) == [kind |-> "num", mant |-> m, dec |-> d]

\* bytes pandas cannot read, and a sheet read with header inference
Unreadable == [kind |-> "unreadable"]

Df(cols, rows) == [kind |-> "df", cols |-> cols, rows |-> rows]

\* an outcome of a call: a returned value, or an exception that escaped
Returned(x) == [raised |-> FALSE, val |-> x]

Raised == [raised |-> TRUE, val |-> None]

NotCalled == [raised |-> FALSE, val |-> "not called"]

\* the variables of a function that a specification does not call
SinNormalize == valor = NaN /\ valor_normalizado = NotCalled

SinExtract == archivo = Unreadable /\ kpi_nombre = "TMO" /\ resultado = NotCalled

SinUnify == archivos_data = <<>> /\ kpis_omitidos = {} /\ registros = NotCalled

SinLocate == hoja = Unreadable /\ kpi_buscado = "TMO" /\ columna = NotCalled

SinDetect == archivo_bytes = Unreadable /\ tipo_kpi = NotCalled

\* the clients that send requests, and a client with no request in flight
Clientes == {"c1", "c2"}

Libre ==
    [tipo |-> "ninguna", paso |-> "libre", authorization |-> None, session_id |-> 0,
     formulario |-> 0, admin_user |-> None, data |-> None]

SinSesion ==
    /\ preview_data = <<>>
    /\ reloj = 1
    /\ n8n = <<>>
    /\ llamada = None
    /\ peticiones = [c \in Clientes |-> Libre]
    /\ respuesta = 0
    /\ extracciones = 0

SinUsuarios ==
    /\ users = <<>>
    /\ TOKENS = <<>>
    /\ utcnow = 0
    /\ emitidos = 0
    /\ respuesta_api = None
    /\ pedidas = 0

SoloSesion == SinNormalize /\ SinExtract /\ SinUnify /\ SinLocate /\ SinDetect /\ SinUsuarios

SoloUsuarios == SinNormalize /\ SinExtract /\ SinUnify /\ SinLocate /\ SinDetect /\ SinSesion

SoloNormalize == SinExtract /\ SinUnify /\ SinLocate /\ SinDetect /\ SinSesion /\ SinUsuarios

SoloExtract == SinNormalize /\ SinUnify /\ SinLocate /\ SinDetect /\ SinSesion /\ SinUsuarios

SoloUnify == SinNormalize /\ SinExtract /\ SinLocate /\ SinDetect /\ SinSesion /\ SinUsuarios

SoloLocate == SinNormalize /\ SinExtract /\ SinUnify /\ SinDetect /\ SinSesion /\ SinUsuarios

SoloDetect == SinNormalize /\ SinExtract /\ SinUnify /\ SinLocate /\ SinSesion /\ SinUsuarios

-----------------------------------------------------------------------------
(* Strings: the str methods the code uses.                                 *)

Digitos == <<"0", "1", "2", "3", "4", "5", "6", "7", "8", "9">>

EsDigito(c) == \E i \in 1..10 : Digitos[i] = c

DigitVal(c) == (CHOOSE i \in 1..10 : Digitos[i] = c) - 1

\* the characters of the model in ascending Unicode code point order
CodePointOrder ==
    <<" ", "%", "+", ",", "-", ".",
      "0", "1", "2", "3", "4", "5", "6", "7", "8", "9", ":",
      "A", "B", "C", "E", "F", "J", "M", "O", "P", "T",
      "a", "b", "c", "d", "e", "f", "i", "j", "l", "m", "n", "o", "p",
      "r", "s", "t", "u", "v", "z", "é">>

CodePoint(c) == CHOOSE i \in 1..Len(CodePointOrder) : CodePointOrder[i] = c

\* str.__lt__: lexicographic by code point
RECURSIVE StrLess(_, _)
StrLess(a, b) ==
    IF b = <<>> THEN FALSE
    ELSE IF a = <<>> THEN TRUE
    ELSE IF Head(a) = Head(b) THEN StrLess(Tail(a), Tail(b))
    ELSE CodePoint(Head(a)) < CodePoint(Head(b))

\* str.replace(old, new) for a one-character old and a new of length <= 1
RECURSIVE Replace(_, _, _)
Replace(s, old, new) ==
    IF s = <<>> THEN <<>>
    ELSE (IF Head(s) = old THEN new ELSE <<Head(s)>>) \o Replace(Tail(s), old, new)

\* str.strip(): the model's only whitespace character is the space
RECURSIVE LStrip(_)
LStrip(s) == IF s # <<>> /\ Head(s) = " " THEN LStrip(Tail(s)) ELSE s

RECURSIVE RStrip(_)
RStrip(s) ==
    IF s # <<>> /\ s[Len(s)] = " " THEN RStrip(SubSeq(s, 1, Len(s) - 1)) ELSE s

Strip(s) == RStrip(LStrip(s))

\* needle in haystack
Contains(haystack, needle) ==
    \E i \in 0..(Len(haystack) - Len(needle)) :
        SubSeq(haystack, i + 1, i + Len(needle)) = needle

RECURSIVE Pow10(_)
Pow10(k) == IF k = 0 THEN 1 ELSE 10 * Pow10(k - 1)

RECURSIVE DigitsValue(_)
DigitsValue(s) ==
    IF s = <<>> THEN 0 ELSE 10 * DigitsValue(SubSeq(s, 1, Len(s) - 1)) + DigitVal(s[Len(s)])

AllDigits(s) == \A i \in 1..Len(s) : EsDigito(s[i])

\* float(text) on text without exponent, underscore, inf or nan (none of them
\* can be written with the model's characters): an optional sign, digits with
\* at most one point, at least one digit.  ok = FALSE stands for ValueError.
ParseBody(s, sign) ==
    LET dots == {i \in 1..Len(s) : s[i] = "."}
    IN  IF dots = {} THEN
            IF s # <<>> /\ AllDigits(s)
            THEN [ok |-> TRUE, mant |-> sign * DigitsValue(s), dec |-> 0]
            ELSE [ok |-> FALSE]
        ELSE IF Cardinality(dots) > 1 THEN [ok |-> FALSE]
        ELSE LET p == CHOOSE i \in dots : TRUE
                 ip == SubSeq(s, 1, p - 1)
                 fp == SubSeq(s, p + 1, Len(s))
             IN  IF AllDigits(ip) /\ AllDigits(fp) /\ Len(ip) + Len(fp) > 0
                 THEN [ok |-> TRUE, mant |-> sign * DigitsValue(ip \o fp), dec |-> Len(fp)]
                 ELSE [ok |-> FALSE]

ParseFloat(text) ==
    LET s == Strip(text)
    IN  IF s = <<>> THEN [ok |-> FALSE]
        ELSE IF Head(s) = "-" THEN ParseBody(Tail(s), -1)
        ELSE IF Head(s) = "+" THEN ParseBody(Tail(s), 1)
        ELSE ParseBody(s, 1)

-----------------------------------------------------------------------------
(* round(x, ndigits) for x = n / d >= 0, in units of 10^-ndigits.          *)

RoundHalfEven(n, d) ==
    LET q == n \div d
        r == n % d
    IN  IF 2 * r < d THEN q
        ELSE IF 2 * r > d THEN q + 1
        ELSE IF q % 2 = 0 THEN q ELSE q + 1

EsEmpate(n, d) == 2 * (n % d) = d

\* round(mant / 10^dec / div, 4) in ten-thousandths
Round4(mant, dec, div) == RoundHalfEven(mant * Pow10(4), Pow10(dec) * div)

-----------------------------------------------------------------------------
(* normalizar_valor, src/main.py 144-181                                   *)

\* a cleaning that only trims the ends and drops one trailing "%"
LimpiarSoloExtremos(s) ==
    LET t == Strip(s)
        u == IF t # <<>> /\ t[Len(t)] = "%" THEN SubSeq(t, 1, Len(t) - 1) ELSE t
    IN  Replace(Strip(u), ",", <<".">>)

\* valor.replace(" ", "").replace("%", "").replace(",", ".")
Limpiar(s) == Replace(Replace(Replace(s, " ", <<>>), "%", <<>>), ",", <<".">>)

\* a scale decision that takes the band 1 < v <= 10 for a fraction
EscalarBandaSinDividir(mant, dec) ==
    IF mant > 10 * Pow10(dec) THEN Float(Round4(mant, dec, 100))
    ELSE IF 0 <= mant /\ mant <= 10 * Pow10(dec) THEN Float(Round4(mant, dec, 1))
    ELSE None

\* the scale decision on valor_num = mant / 10^dec
Escalar(mant, dec) ==
    IF mant > 10 * Pow10(dec) THEN Float(Round4(mant, dec, 100))
    ELSE IF 0 <= mant /\ mant <= Pow10(dec) THEN Float(Round4(mant, dec, 1))
    ELSE IF Pow10(dec) < mant /\ mant <= 10 * Pow10(dec) THEN Float(Round4(mant, dec, 100))
    ELSE None

\* the try block, 160-178: Raised is the ValueError float() raises on a text
\* that is no number, or its TypeError on a cell that is no text or number
NormalizarIntento(v) ==
    IF v.kind = "str" THEN
        LET valor_limpio == Limpiar(v.s)
        IN  IF valor_limpio = <<>> THEN Returned(None)
            ELSE LET p == ParseFloat(valor_limpio)
                 IN  IF p.ok THEN Returned(Escalar(p.mant, p.dec)) ELSE Raised
    ELSE IF v.kind = "num" THEN Returned(Escalar(v.mant, v.dec))
    ELSE Raised

\* a handler that lets the exception escape
SinCapturar(o) == o

\* except (ValueError, TypeError): return None
Capturar(o) == IF o.raised THEN Returned(None) ELSE o

\* the outcome of the call normalizar_valor(v)
NormalizarLlamada(v) ==
    IF v.kind = "nan" \/ (v.kind = "str" /\ v.s = <<>>) THEN Returned(None)
    ELSE Capturar(NormalizarIntento(v))

normalizar_valor(v) == NormalizarLlamada(v).val

-----------------------------------------------------------------------------
(* buscar_columna_valor, src/main.py 184-228                               *)

\* str.lower() on the letters of the model
\* c.lower() and c.upper() of one character
LowerOf(c) ==
    CASE c = "A" -> "a" [] c = "B" -> "b" [] c = "C" -> "c" [] c = "D" -> "d"
      [] c = "E" -> "e" [] c = "F" -> "f" [] c = "G" -> "g" [] c = "H" -> "h"
      [] c = "I" -> "i" [] c = "J" -> "j" [] c = "K" -> "k" [] c = "L" -> "l"
      [] c = "M" -> "m" [] c = "N" -> "n" [] c = "O" -> "o" [] c = "P" -> "p"
      [] c = "Q" -> "q" [] c = "R" -> "r" [] c = "S" -> "s" [] c = "T" -> "t"
      [] c = "U" -> "u" [] c = "V" -> "v" [] c = "W" -> "w" [] c = "X" -> "x"
      [] c = "Y" -> "y" [] c = "Z" -> "z" [] c = "É" -> "é"
      [] OTHER -> c

UpperOf(c) ==
    CASE c = "a" -> "A" [] c = "b" -> "B" [] c = "c" -> "C" [] c = "d" -> "D"
      [] c = "e" -> "E" [] c = "f" -> "F" [] c = "g" -> "G" [] c = "h" -> "H"
      [] c = "i" -> "I" [] c = "j" -> "J" [] c = "k" -> "K" [] c = "l" -> "L"
      [] c = "m" -> "M" [] c = "n" -> "N" [] c = "o" -> "O" [] c = "p" -> "P"
      [] c = "q" -> "Q" [] c = "r" -> "R" [] c = "s" -> "S" [] c = "t" -> "T"
      [] c = "u" -> "U" [] c = "v" -> "V" [] c = "w" -> "W" [] c = "x" -> "X"
      [] c = "y" -> "Y" [] c = "z" -> "Z" [] c = "é" -> "É"
      [] OTHER -> c

Upper(s) == [i \in 1..Len(s) |-> UpperOf(s[i])]

Lower(s) == [i \in 1..Len(s) |-> LowerOf(s[i])]

RECURSIVE IntStr(_)
IntStr(n) == IF n < 10 THEN <<Digitos[n + 1]>> ELSE IntStr(n \div 10) \o <<Digitos[(n % 10) + 1]>>

RECURSIVE ZeroPad(_, _)
ZeroPad(s, w) == IF Len(s) >= w THEN s ELSE ZeroPad(<<"0">> \o s, w)

\* str(x) of a cell value
StrOf(c) ==
    IF c.kind = "str" THEN c.s
    ELSE IF c.kind = "nan" THEN <<"n", "a", "n">>
    ELSE LET a == IF c.mant < 0 THEN -c.mant ELSE c.mant
             sg == IF c.mant < 0 THEN <<"-">> ELSE <<>>
         IN  IF c.dec = 0 THEN sg \o IntStr(a)
             ELSE sg \o IntStr(a \div Pow10(c.dec)) \o <<".">>
                     \o ZeroPad(IntStr(a % Pow10(c.dec)), c.dec)

S_total == <<"t", "o", "t", "a", "l">>

kpi_patterns ==
    [TMO |-> <<<<"%", "t", "m", "o">>, <<"t", "m", "o">>>>,
     TransfEPA |-> <<<<"%", "t", "r", "a", "n", "s", "f">>, <<"t", "r", "a", "n", "s", "f", " ", "e", "p", "a">>, <<"t", "r", "a", "n", "s", "f", "e", "p", "a">>, <<"t", "r", "a", "n", "s", "f", ".">>>>,
     Tipificaciones |-> <<<<"%", "t", "i", "p", "i", "f">>, <<"t", "i", "p", "i", "f">>, <<"t", "i", "p", "i", "f", "i", "c", "a", "c", "i", "o", "n", "e", "s">>>>,
     SatEP |-> <<<<"%", "s", "a", "t", "i", "s", "f">>, <<"s", "a", "t", "i", "s", "f">>>>,
     ResEP |-> <<<<"%", "r", "e", "s", "o", "l">>, <<"r", "e", "s", "o", "l">>>>,
     SatSNL |-> <<<<"%", "s", "a", "t", "i", "s", "f">>, <<"s", "a", "t", "i", "s", "f">>>>,
     ResSNL |-> <<<<"%", "r", "e", "s", "o", "l">>, <<"r", "e", "s", "o", "l">>>>]

\* Opcion 1: the columns whose label is a str equal to "total" once lowered
\* and stripped
ColumnasTotal(df) ==
    {i \in 1..Len(df.cols) :
        df.cols[i].kind = "str" /\ Strip(Lower(df.cols[i].s)) = S_total}

\* a search of the patterns in the first-row value as written
ColumnasPatronSinLower(df, kpi) ==
    IF kpi \in DOMAIN kpi_patterns /\ Len(df.rows) > 0
    THEN {i \in 1..Len(df.cols) :
            \E j \in 1..Len(kpi_patterns[kpi]) :
                Contains(StrOf(df.rows[1][i]), kpi_patterns[kpi][j])}
    ELSE {}

\* Opcion 2: the columns whose first-row value contains a pattern of the KPI
ColumnasPatron(df, kpi) ==
    IF kpi \in DOMAIN kpi_patterns /\ Len(df.rows) > 0
    THEN {i \in 1..Len(df.cols) :
            \E j \in 1..Len(kpi_patterns[kpi]) :
                Contains(Lower(StrOf(df.rows[1][i])), kpi_patterns[kpi][j])}
    ELSE {}

Min(S) == CHOOSE x \in S : \A y \in S : x <= y

\* a search that tries the patterns before the label "Total"
BuscarPatronPrimero(df, kpi) ==
    LET total == ColumnasTotal(df)
        patron == ColumnasPatron(df, kpi)
    IN  IF patron # {} THEN Min(patron)
        ELSE IF total # {} THEN Min(total)
        ELSE IF Len(df.cols) >= 2 THEN 2
        ELSE 0

\* the position (from 1) of the column returned; 0 stands for None
buscar_columna_valor(df, kpi) ==
    LET total == ColumnasTotal(df)
        patron == ColumnasPatron(df, kpi)
    IN  IF total # {} THEN Min(total)
        ELSE IF patron # {} THEN Min(patron)
        ELSE IF Len(df.cols) >= 2 THEN 2
        ELSE 0

-----------------------------------------------------------------------------
(* procesar_archivo_kpi, src/main.py 298-352                               *)

S_Total == <<"T", "o", "t", "a", "l">>

S_FiltrosAplicados == <<"F", "i", "l", "t", "r", "o", "s", " ", "a", "p", "l", "i", "c", "a", "d", "o", "s">>

\* bool(label) is False: the label 0 or the empty str
Falsy(label) ==
    \/ label.kind = "num" /\ label.mant = 0
    \/ label.kind = "str" /\ label.s = <<>>

\* round(valor_normalizado * 100, 2) in hundredths, valor_normalizado = f / 10^4
Porcentaje(f) == RoundHalfEven(f * 100 * Pow10(2), Pow10(4))

\* resultado[key] = value
Put(res, key, value) ==
    [k \in DOMAIN res \cup {key} |-> IF k = key THEN value ELSE res[k]]

\* a filter that forgets the summary row "Total"
FilaInvalidaSinTotal(ejecutivo) ==
    \/ ejecutivo.kind = "nan"
    \/ ejecutivo.kind = "str" /\ ejecutivo.s = <<>>
    \/ ejecutivo.kind = "str" /\ Contains(ejecutivo.s, S_FiltrosAplicados)

\* the rows the loop skips
FilaInvalida(ejecutivo) ==
    \/ ejecutivo.kind = "nan"
    \/ ejecutivo.kind = "str" /\ ejecutivo.s = <<>>
    \/ ejecutivo.kind = "str"
         /\ (Contains(ejecutivo.s, S_FiltrosAplicados) \/ Strip(ejecutivo.s) = S_Total)

\* a loop body that leaves out the executives whose value does not normalize
ProcesarFilaDescartaNone(res, row, columna_valor) ==
    LET ejecutivo == row[1]
        valor_n == normalizar_valor(row[columna_valor])
    IN  IF FilaInvalida(ejecutivo) \/ valor_n = None THEN res
        ELSE Put(res, StrOf(ejecutivo), Float(Porcentaje(valor_n.v)))

\* one iteration of the loop over df.iterrows()
ProcesarFila(res, row, columna_valor) ==
    LET ejecutivo == row[1]
        valor_n == normalizar_valor(row[columna_valor])
    IN  IF FilaInvalida(ejecutivo) THEN res
        ELSE IF valor_n # None
             THEN Put(res, StrOf(ejecutivo), Float(Porcentaje(valor_n.v)))
             ELSE Put(res, StrOf(ejecutivo), None)

\* a loop over every row, the first data row included
TodasLasFilas(df) == 1..Len(df.rows)

\* df = df.iloc[1:]: the rows the loop visits
FilasDelBucle(df) == 2..Len(df.rows)

\* resultado once the loop has gone past row k
RECURSIVE Bucle(_, _, _)
Bucle(df, columna_valor, k) ==
    IF k < 1 THEN <<>>
    ELSE IF k \in FilasDelBucle(df)
         THEN ProcesarFila(Bucle(df, columna_valor, k - 1), df.rows[k], columna_valor)
         ELSE Bucle(df, columna_valor, k - 1)

\* df.empty
Empty(df) == Len(df.rows) = 0 \/ Len(df.cols) = 0

\* the body of the try block
ProcesarCuerpo(arch, kpi) ==
    IF arch.kind = "unreadable" THEN Raised            \* pd.read_excel raises
    ELSE IF Empty(arch) THEN Returned(<<>>)
    ELSE LET columna_valor == buscar_columna_valor(arch, kpi)
         IN  IF columna_valor = 0 \/ Falsy(arch.cols[columna_valor])
             THEN Returned(<<>>)
             ELSE Returned(Bucle(arch, columna_valor, Len(arch.rows)))

\* the function without its except clause
ProcesarSinExcept(arch, kpi) == ProcesarCuerpo(arch, kpi)

\* try: ... except Exception: return {}
procesar_archivo_kpi(arch, kpi) ==
    LET cuerpo == ProcesarCuerpo(arch, kpi)
    IN  IF cuerpo.raised THEN Returned(<<>>) ELSE cuerpo

-----------------------------------------------------------------------------
(* unificar_datos_kpi, src/main.py 355-381                                 *)

KpiList == <<"TMO", "TransfEPA", "Tipificaciones", "SatEP", "ResEP", "SatSNL", "ResSNL">>

\* key = kpi_nombre.lower()
KeyOf ==
    [TMO |-> "tmo", TransfEPA |-> "transfepa", Tipificaciones |-> "tipificaciones",
     SatEP |-> "satep", ResEP |-> "resep", SatSNL |-> "satsnl", ResSNL |-> "ressnl"]

\* datos_por_kpi: one extraction per file whose KPI is not omitted
DatosPorKpi(archivos, omitidos) ==
    [k \in {j \in DOMAIN archivos : j \notin omitidos} |->
        procesar_archivo_kpi(archivos[k], k)]

\* todos_ejecutivos
TodosEjecutivos(datos) == UNION {DOMAIN datos[k].val : k \in DOMAIN datos}

\* the orders in which iterating a set may yield its elements
Enumeraciones(S) ==
    {f \in [1..Cardinality(S) -> S] : \A i, j \in 1..Cardinality(S) : f[i] = f[j] => i = j}

RECURSIVE Insert(_, _)
Insert(x, s) ==
    IF s = <<>> THEN <<x>>
    ELSE IF StrLess(x, Head(s)) THEN <<x>> \o s
    ELSE <<Head(s)>> \o Insert(x, Tail(s))

\* the set taken in its iteration order, unsorted
SinOrdenar(iter) == iter

\* sorted(todos_ejecutivos), the set iterated in the order iter
RECURSIVE Sorted(_)
Sorted(iter) ==
    IF iter = <<>> THEN <<>> ELSE Insert(iter[Len(iter)], Sorted(SubSeq(iter, 1, Len(iter) - 1)))

\* a lookup that fills a missing executive with 0 instead of None
ValorRegistroCero(datos, omitidos, k, ejecutivo) ==
    IF k \in omitidos THEN None
    ELSE IF k \in DOMAIN datos /\ ejecutivo \in DOMAIN datos[k].val
         THEN datos[k].val[ejecutivo]
         ELSE Float(0)

\* registro[key]: None if omitted, else datos_por_kpi.get(k, {}).get(ejecutivo, None)
ValorRegistro(datos, omitidos, k, ejecutivo) ==
    IF k \in omitidos THEN None
    ELSE IF k \in DOMAIN datos /\ ejecutivo \in DOMAIN datos[k].val
         THEN datos[k].val[ejecutivo]
         ELSE None

Campos == {"ejecutivo"} \cup {KeyOf[KpiList[i]] : i \in 1..Len(KpiList)}

KpiDeCampo(c) == CHOOSE k \in DOMAIN KeyOf : KeyOf[k] = c

Registro(datos, omitidos, ejecutivo) ==
    [c \in Campos |->
        IF c = "ejecutivo" THEN ejecutivo
        ELSE ValorRegistro(datos, omitidos, KpiDeCampo(c), ejecutivo)]

\* the list registros built from datos_por_kpi; iter is the order in which
\* this run iterates the set todos_ejecutivos
Registros(datos, omitidos, iter) ==
    LET orden == Sorted(iter)
    IN  [i \in 1..Len(orden) |-> Registro(datos, omitidos, orden[i])]

\* a call whose iteration of todos_ejecutivos yields one of the orders iters
unificar_datos_kpi(archivos, omitidos) ==
    LET datos == DatosPorKpi(archivos, omitidos)
    IN  IF \E k \in DOMAIN datos : datos[k].raised THEN {Raised}
        ELSE {Returned(Registros(datos, omitidos, iter)) :
                iter \in Enumeraciones(TodosEjecutivos(datos))}

-----------------------------------------------------------------------------
(* Inputs of normalizar_valor.                                             *)

AlfabetoValor == {"1", "5", ",", ".", " ", "%", "-", "a"}

RECURSIVE CadenasHasta(_)
CadenasHasta(n) ==
    IF n = 0 THEN {<<>>}
    ELSE LET prev == CadenasHasta(n - 1)
         IN  prev \cup {Append(s, c) : s \in {t \in prev : Len(t) = n - 1}, c \in AlfabetoValor}

S_9550pct == <<"9", "5", ",", "5", "0", " ", "%">>

S_0_9550 == <<"0", ",", "9", "5", "5", "0">>

S_abc == <<"a", "b", "c">>

S_5520 == <<"5", "5", ",", "2", "0">>

S_60 == <<"6", "0">>

S_150 == <<"1", "5", "0">>

EjemplosCadena == {S_9550pct, S_0_9550, S_abc, S_5520, S_60, S_150}

\* numeric cells whose rounding is no exact decimal tie
SinEmpate(m, d) ==
    ~EsEmpate(m * Pow10(4), Pow10(d) * 100) /\ ~EsEmpate(m * Pow10(4), Pow10(d))

CeldasNumericas ==
    {Num(m, d) : m \in (-2)..MaxMant, d \in 0..MaxDec} \cup {Num(12346, 5), Num(95504, 5)}

CeldasNormalizar ==
    {NaN, Fecha}
    \cup {Str(s) : s \in CadenasHasta(MaxLen) \cup EjemplosCadena}
    \cup {c \in CeldasNumericas : SinEmpate(c.mant, c.dec)}

-----------------------------------------------------------------------------
(* Specification of a call of normalizar_valor.                            *)

InitNormalize ==
    /\ valor \in CeldasNormalizar
    /\ valor_normalizado = NotCalled
    /\ SoloNormalize
    /\ pc = "norm_start"

Normalizar ==
    /\ pc = "norm_start"
    /\ valor_normalizado' = NormalizarLlamada(valor)
    /\ pc' = "norm_done"
    /\ UNCHANGED <<valor, otrosNormalize>>

NextNormalize == Normalizar

SpecNormalize == InitNormalize /\ [][NextNormalize]_vars

-----------------------------------------------------------------------------
(* Inputs of procesar_archivo_kpi: sheets of one, two or three columns     *)
(* whose rows are drawn from a few kinds of row.                           *)

Kpis == {"TMO", "TransfEPA", "Tipificaciones", "SatEP", "ResEP", "SatSNL", "ResSNL"}

S_Ejecutivo == <<"E", "j", "e", "c", "u", "t", "i", "v", "o">>

S_Ana == <<"A", "n", "a">>

S_Bob == <<"B", "o", "b">>

S_Cara == <<"C", "a", "r", "a">>

S_ana == <<"a", "n", "a">>

S_JuanPerez == <<"J", "u", "a", "n", " ", "P", "é", "r", "e", "z">>

S_PctTMO == <<"%", "T", "M", "O">>

S_PctSatisf == <<"%", "S", "A", "T", "I", "S", "F">>

\* a row as (name cell, value cell)
FilaEtiqueta == <<Str(S_Ejecutivo), Str(S_PctTMO)>>

FilasModelo ==
    { FilaEtiqueta,
      <<Str(S_Ana), Str(S_9550pct)>>,
      <<Str(S_Ana), Str(S_abc)>>,
      <<Str(S_Bob), Num(552, 1)>>,
      <<Str(<<" ", "T", "o", "t", "a", "l">>), Str(S_60)>>,
      <<Str(<<"F", "i", "l", "t", "r", "o", "s", " ", "a", "p", "l", "i", "c", "a", "d", "o", "s", ":", " ", "S", "E", "R", "V", "I", "C", "I", "O", " ", "e", "s", " ", "E", "P">>), NaN>>,
      <<NaN, Str(S_60)>> }

\* the labels of the columns and the position of the value cell in a row
CabecerasModelo ==
    { [cols |-> <<Str(S_Ejecutivo), Str(S_Total)>>, pos |-> 2],
      [cols |-> <<Str(S_Ejecutivo), Str(<<"V", "a", "l", "o", "r">>)>>, pos |-> 2],
      [cols |-> <<Str(S_Ejecutivo)>>, pos |-> 0],
      [cols |-> <<Str(S_Ejecutivo), Str(<<"N", "o", "t", "a">>), Str(<<" ", "T", "O", "T", "A", "L", " ">>)>>, pos |-> 3],
      [cols |-> <<Str(S_Ejecutivo), Str(<<"N", "o", "t", "a">>), Str(<<"V", "a", "l", "o", "r">>)>>, pos |-> 3],
      [cols |-> <<Str(S_Ejecutivo), Num(0, 0)>>, pos |-> 2] }

FilaDe(h, f) ==
    [i \in 1..Len(h.cols) |-> IF i = 1 THEN f[1] ELSE IF i = h.pos THEN f[2] ELSE NaN]

RECURSIVE ListasHasta(_, _)
ListasHasta(S, n) ==
    IF n = 0 THEN {<<>>}
    ELSE LET prev == ListasHasta(S, n - 1)
         IN  prev \cup {Append(l, x) : l \in {t \in prev : Len(t) = n - 1}, x \in S}

HojasModelo ==
    {Unreadable, Df(<<>>, <<>>)}
    \cup {Df(h.cols, [i \in 1..Len(l) |-> FilaDe(h, l[i])]) :
            h \in CabecerasModelo, l \in ListasHasta(FilasModelo, MaxFilas)}

-----------------------------------------------------------------------------
(* Specification of a call of procesar_archivo_kpi.                        *)

InitExtract ==
    /\ archivo \in HojasModelo
    /\ kpi_nombre \in Kpis
    /\ resultado = NotCalled
    /\ SoloExtract
    /\ pc = "ext_start"

Procesar ==
    /\ pc = "ext_start"
    /\ resultado' = procesar_archivo_kpi(archivo, kpi_nombre)
    /\ pc' = "ext_done"
    /\ UNCHANGED <<archivo, kpi_nombre, otrosExtract>>

NextExtract == Procesar

SpecExtract == InitExtract /\ [][NextExtract]_vars

-----------------------------------------------------------------------------
(* Inputs of unificar_datos_kpi.                                           *)

CabeceraTotal == <<Str(S_Ejecutivo), Str(S_Total)>>

CabeceraValor == <<Str(S_Ejecutivo), Str(<<"V", "a", "l", "o", "r">>)>>

\* the TMO file of the executives Ana and Bob
ArchivoA ==
    Df(CabeceraTotal,
       << FilaEtiqueta, <<Str(S_Ana), Str(S_9550pct)>>, <<Str(S_Bob), Str(<<"8", "0">>)>> >>)

\* the satisfaction file of the executives Bob and Cara
ArchivoB ==
    Df(CabeceraValor,
       << <<Str(S_Ejecutivo), Str(S_PctSatisf)>>,
          <<Str(S_Bob), Str(S_0_9550)>>, <<Str(S_Cara), Num(70, 0)>> >>)

\* a file with a lower-case name and a cell that does not parse
ArchivoD ==
    Df(CabeceraTotal,
       << FilaEtiqueta, <<Str(S_ana), Str(S_abc)>>, <<Str(S_Bob), Str(<<"5">>)>> >>)

\* one column only: no value column is found
ArchivoSinColumna ==
    Df(<<Str(S_Ejecutivo)>>, << <<Str(S_Ejecutivo)>>, <<Str(S_Ana)>>, <<Str(S_Cara)>> >>)

ArchivosModelo == {ArchivoA, ArchivoB, ArchivoD, ArchivoSinColumna, Unreadable}

FilaJuan == <<Str(S_JuanPerez), Str(S_5520)>>

FilaTotal == <<Str(S_Total), Str(S_60)>>

\* header row, label row, then the two rows
ArchivoJuanEtiqueta == Df(CabeceraTotal, <<FilaEtiqueta, FilaJuan, FilaTotal>>)

ArchivoJuanPatron == Df(CabeceraValor, <<FilaEtiqueta, FilaJuan, FilaTotal>>)

\* the label row names the KPI in the name column too
ArchivoJuanColumna0 ==
    Df(CabeceraValor, << <<Str(S_PctTMO), Str(S_PctTMO)>>, FilaJuan, FilaTotal >>)

\* header row, then the two rows as the only data rows
ArchivoJuanDatos == Df(CabeceraTotal, <<FilaJuan, FilaTotal>>)

\* the two rows as the only rows of the sheet: the first one is the header
ArchivoJuanSolo == Df(FilaJuan, <<FilaTotal>>)

ArchivosJuan ==
    {ArchivoJuanEtiqueta, ArchivoJuanPatron, ArchivoJuanColumna0, ArchivoJuanDatos,
     ArchivoJuanSolo}

\* the KPIs a file is uploaded for; no file is provided for the other three
KpisConArchivo == {"TMO", "TransfEPA", "SatEP", "ResSNL"}

EntradasUnificar ==
    {[archivos |-> a, omitidos |-> o] :
        a \in UNION {[S -> ArchivosModelo] :
                        S \in {X \in SUBSET KpisConArchivo : Cardinality(X) <= MaxArchivos}},
        o \in {X \in SUBSET Kpis : Cardinality(X) <= MaxOmitidos}}
    \cup {[archivos |-> ("TMO" :> j), omitidos |-> {}] : j \in ArchivosJuan}

-----------------------------------------------------------------------------
(* Specification of the calls of unificar_datos_kpi on one input: the      *)
(* function may be run again on the same input.                            *)

Init ==
    /\ SoloUnify
    /\ \E e \in EntradasUnificar :
          /\ archivos_data = e.archivos
          /\ kpis_omitidos = e.omitidos
    /\ registros = NotCalled
    /\ pc = "uni_start"

Unificar ==
    /\ pc \in {"uni_start", "uni_done"}
    /\ registros' \in unificar_datos_kpi(archivos_data, kpis_omitidos)
    /\ pc' = "uni_done"
    /\ UNCHANGED <<archivos_data, kpis_omitidos, otrosUnify>>

Next == Unificar

Spec == Init /\ [][Next]_vars

-----------------------------------------------------------------------------
(* Claims about unificar_datos_kpi.                                        *)

\* the names extracted from the files of the KPIs provided and not omitted
NombresExtraidos ==
    UNION {DOMAIN procesar_archivo_kpi(archivos_data[k], k).val :
             k \in DOMAIN archivos_data \ kpis_omitidos}

C1_OneRecordPerName ==
    pc = "uni_done" =>
        /\ ~registros.raised
        /\ {registros.val[i]["ejecutivo"] : i \in 1..Len(registros.val)} = NombresExtraidos
        /\ Len(registros.val) = Cardinality(NombresExtraidos)
        /\ \A i, j \in 1..Len(registros.val) :
              i < j => StrLess(registros.val[i]["ejecutivo"], registros.val[j]["ejecutivo"])

\* C1: unify returns exactly one record per executive name in the union of
\* the names extracted from the files of the metrics provided and not
\* omitted, in ascending order of name by code point; a second run on the
\* same inputs returns the same list, whatever order the set of names is
\* iterated in.
C1_UnionSortedDeterministic ==
    /\ []C1_OneRecordPerName
    /\ [][pc = "uni_done" => registros' = registros]_vars

\* the names Ana, Bob and ana came out in code point order
C1_Witness ==
    /\ pc = "uni_done"
    /\ archivos_data = ("TMO" :> ArchivoA) @@ ("ResSNL" :> ArchivoD)
    /\ Len(registros.val) = 3
    /\ registros.val[1]["ejecutivo"] = S_Ana
    /\ registros.val[2]["ejecutivo"] = S_Bob
    /\ registros.val[3]["ejecutivo"] = S_ana

\* the value the extract of KPI k holds for the executive, if any
ValorExtraido(k, ejecutivo) ==
    IF k \in kpis_omitidos THEN None
    ELSE IF k \notin DOMAIN archivos_data THEN None
    ELSE LET ext == procesar_archivo_kpi(archivos_data[k], k).val
         IN  IF ejecutivo \in DOMAIN ext THEN ext[ejecutivo] ELSE None

RegistroDe(ejecutivo, tmo, satep) ==
    [ejecutivo |-> ejecutivo, tmo |-> tmo, transfepa |-> None, tipificaciones |-> None,
     satep |-> satep, resep |-> None, satsnl |-> None, ressnl |-> None]

\* C2: every unified record carries a value for each of the seven metrics:
\* absent if the metric is omitted, otherwise the value its extract holds for
\* the executive, absent if the executive is not in that file or no file was
\* provided.  A TMO file of Ana and Bob with a SatEP file of Bob and Cara
\* gives three records, Ana without SatEP, Cara without TMO, Bob with both.
C2_SevenMetricsPerRecord ==
    pc = "uni_done" =>
        /\ \A i \in 1..Len(registros.val) :
              /\ DOMAIN registros.val[i] = Campos
              /\ \A k \in Kpis :
                    registros.val[i][KeyOf[k]] =
                        ValorExtraido(k, registros.val[i]["ejecutivo"])
        /\ (archivos_data = ("TMO" :> ArchivoA) @@ ("SatEP" :> ArchivoB)
              /\ kpis_omitidos = {})
            => registros.val = << RegistroDe(S_Ana, Float(9550), None),
                                  RegistroDe(S_Bob, Float(8000), Float(9550)),
                                  RegistroDe(S_Cara, None, Float(7000)) >>

\* the two files of the example were unified into three records
C2_Witness ==
    /\ pc = "uni_done"
    /\ archivos_data = ("TMO" :> ArchivoA) @@ ("SatEP" :> ArchivoB)
    /\ kpis_omitidos = {}
    /\ Len(registros.val) = 3
    /\ registros.val[2]["tmo"] = Float(8000)
    /\ registros.val[2]["satep"] = Float(9550)

SoloJuan == Returned(<<RegistroDe(S_JuanPerez, Float(5520), None)>>)

Malformado(arch, kpi) ==
    \/ arch.kind = "unreadable"
    \/ ~Empty(arch) /\ buscar_columna_valor(arch, kpi) = 0

SinArchivo(archivos, k) == [j \in DOMAIN archivos \ {k} |-> archivos[j]]

\* C7: when the file of one metric is malformed (unreadable, or no value
\* column found), unify still succeeds and returns exactly the records it
\* returns when that file is not provided: the metric is absent for every
\* executive and the values of the other metrics are unchanged.
C7_GracefulDegradation ==
    pc = "uni_done" =>
        /\ ~registros.raised
        /\ \A k \in DOMAIN archivos_data \ kpis_omitidos :
              Malformado(archivos_data[k], k) =>
                 /\ unificar_datos_kpi(SinArchivo(archivos_data, k), kpis_omitidos)
                      = {registros}
                 /\ \A i \in 1..Len(registros.val) : registros.val[i][KeyOf[k]] = None

\* an unreadable SatEP file beside the TMO file of Ana and Bob: two records
C7_Witness ==
    /\ pc = "uni_done"
    /\ archivos_data = ("TMO" :> ArchivoA) @@ ("SatEP" :> Unreadable)
    /\ kpis_omitidos = {}
    /\ registros.val = << RegistroDe(S_Ana, Float(9550), None),
                          RegistroDe(S_Bob, Float(8000), None) >>

-----------------------------------------------------------------------------
(* Claims about procesar_archivo_kpi.                                      *)

\* the call got as far as the loop over the rows: the file was read, the
\* sheet is not empty and a value column was found
BucleAlcanzado(arch, kpi) ==
    /\ arch.kind = "df"
    /\ ~Empty(arch)
    /\ buscar_columna_valor(arch, kpi) # 0
    /\ ~Falsy(arch.cols[buscar_columna_valor(arch, kpi)])

\* a name cell that is non-empty, does not contain "Filtros aplicados" and
\* is not "Total" after trimming
NombreValido(c) ==
    /\ c.kind = "str"
    /\ c.s # <<>>
    /\ ~Contains(c.s, S_FiltrosAplicados)
    /\ Strip(c.s) # S_Total

FilasValidas(df) == {k \in 2..Len(df.rows) : NombreValido(df.rows[k][1])}

ValorEsperado(cell) ==
    IF normalizar_valor(cell) = None THEN None
    ELSE Float(RoundHalfEven(normalizar_valor(cell).v, 1))

\* C5: for every row extract keeps, the value stored for its executive is
\* round(normalize(cell) * 100, 2) when the value cell normalizes and the
\* absence marker otherwise (the mapping returned holds it unless a later
\* kept row of the same name stored over it); a cell that does not parse
\* never drops the executive from the mapping and never fails the call.
C5_StoredValue ==
    (pc = "ext_done" /\ BucleAlcanzado(archivo, kpi_nombre)) =>
        LET col == buscar_columna_valor(archivo, kpi_nombre)
        IN  /\ ~resultado.raised
            /\ \A k \in FilasValidas(archivo) :
                 LET nombre == archivo.rows[k][1].s
                     esperado == ValorEsperado(archivo.rows[k][col])
                 IN  /\ nombre \in DOMAIN resultado.val
                     /\ Bucle(archivo, col, k)[nombre] = esperado
                     /\ (\A j \in FilasValidas(archivo) :
                             (j > k => archivo.rows[j][1].s # nombre))
                           => resultado.val[nombre] = esperado

\* Bob's 55.2 was stored as 55.2 and Ana, whose cell is "abc", is kept
\* with the absence marker
C5_Witness ==
    /\ pc = "ext_done"
    /\ archivo = Df(<<Str(S_Ejecutivo), Str(S_Total)>>,
                    << FilaEtiqueta,
                       <<Str(S_Bob), Num(552, 1)>>,
                       <<Str(S_Ana), Str(S_abc)>> >>)
    /\ resultado = Returned((S_Bob :> Float(5520)) @@ (S_Ana :> None))

\* C6: extract never raises; for an unreadable file, an empty sheet or a
\* sheet for which the column locator returns NotFound it returns the empty
\* mapping.
C6_NeverRaises ==
    pc = "ext_done" =>
        /\ ~resultado.raised
        /\ (\/ archivo.kind = "unreadable"
            \/ Empty(archivo)
            \/ buscar_columna_valor(archivo, kpi_nombre) = 0)
              => resultado.val = <<>>

\* an unreadable file gave the empty mapping
C6_Witness ==
    /\ pc = "ext_done"
    /\ archivo.kind = "unreadable"
    /\ resultado = Returned(<<>>)

-----------------------------------------------------------------------------
(* Claims about normalizar_valor.                                          *)

\* the real number normalizar_valor parsed from its argument, if any
ParsedReal(v) ==
    IF v.kind = "num" THEN [ok |-> TRUE, mant |-> v.mant, dec |-> v.dec]
    ELSE IF v.kind = "str" THEN ParseFloat(Limpiar(v.s))
    ELSE [ok |-> FALSE]

\* C8: for every parsed real number v, normalize(v) = round(v, 4) when
\* 0 <= v <= 1 and normalize(v) = round(v / 100, 4) when v > 1, the band
\* 1 < v <= 10 included.
C8_ScaleDisambiguation ==
    pc = "norm_done" =>
        LET p == ParsedReal(valor)
        IN  p.ok =>
              /\ (0 <= p.mant /\ p.mant <= Pow10(p.dec)
                    => valor_normalizado = Returned(Float(Round4(p.mant, p.dec, 1))))
              /\ (p.mant > Pow10(p.dec)
                    => valor_normalizado = Returned(Float(Round4(p.mant, p.dec, 100))))

\* the ambiguous band: the number 5 was normalized to 0.05
C8_Witness ==
    /\ pc = "norm_done"
    /\ valor = Num(5, 0)
    /\ valor_normalizado = Returned(Float(500))

\* C9: every result of normalize that is not Unparseable is a fraction in
\* the closed interval [0, 1] (0 .. 10000 ten-thousandths).
C9_FractionInUnitInterval ==
    (pc = "norm_done" /\ valor_normalizado.val # None)
        => (0 <= valor_normalizado.val.v /\ valor_normalizado.val.v <= 10000)

\* the text the claim C10 describes: surrounding whitespace trimmed, one
\* trailing "%" removed, "," replaced by "."
RECURSIVE MapComma(_)
MapComma(s) ==
    IF s = <<>> THEN <<>>
    ELSE <<IF Head(s) = "," THEN "." ELSE Head(s)>> \o MapComma(Tail(s))

TrimmedText(s) ==
    LET t == Strip(s)
    IN  MapComma(Strip(IF t # <<>> /\ t[Len(t)] = "%" THEN SubSeq(t, 1, Len(t) - 1) ELSE t))

\* the text with every space and every "%" removed and "," replaced by "."
FilteredText(s) == MapComma(SelectSeq(s, LAMBDA c : c \notin {" ", "%"}))

NormalizeOfText(text) ==
    LET p == ParseFloat(text)
    IN  IF p.ok THEN normalizar_valor(Num(p.mant, p.dec)) ELSE None

\* C10 as stated: for string input, normalize(s) is normalize of the number
\* written by the trimmed text, and Unparseable when the trimmed text is no
\* number (whitespace between digits, a "%" that is not trailing).
C10_TrimmedTextDecides ==
    (pc = "norm_done" /\ valor.kind = "str")
        => valor_normalizado = Returned(NormalizeOfText(TrimmedText(valor.s)))

\* C10 amended: for string input, normalize(s) is normalize of the number
\* written by s with every space and every "%" removed, wherever they stand,
\* and "," replaced by "."; Unparseable when that text is no number.
\* "95,50 %" and "0,9550" both normalize to 0.955.
C10_FilteredTextDecides ==
    (pc = "norm_done" /\ valor.kind = "str")
        => /\ valor_normalizado = Returned(NormalizeOfText(FilteredText(valor.s)))
           /\ (valor.s \in {S_9550pct, S_0_9550} => valor_normalizado = Returned(Float(9550)))
           /\ (valor.s = S_abc => valor_normalizado = Returned(None))

\* a string with whitespace between its digits was normalized: "1 5" to 0.15
C10_Witness ==
    /\ pc = "norm_done"
    /\ valor = Str(<<"1", " ", "5">>)
    /\ valor_normalizado = Returned(Float(1500))

\* the text of a string cell is no number once cleaned
NoEsNumero(v) == v.kind = "str" /\ ~ParseFloat(Limpiar(v.s)).ok

\* the cell is a number below zero, written as a number or as text
EsNegativo(v) == ParsedReal(v).ok /\ ParsedReal(v).mant < 0

\* C11: normalize never raises, and it returns Unparseable for an absent or
\* empty cell, for a string that does not parse as a number ("abc"), and for
\* every negative number.
C11_UnparseableNeverRaises ==
    pc = "norm_done" =>
        /\ ~valor_normalizado.raised
        /\ valor_normalizado.val = None \/ valor_normalizado.val.t = "float"
        /\ (valor = NaN \/ valor = Str(<<>>) \/ NoEsNumero(valor) \/ EsNegativo(valor))
              => valor_normalizado = Returned(None)
        /\ valor = Str(S_abc) => valor_normalizado = Returned(None)

\* float() raised on "abc" and the call returned None
C11_Witness ==
    /\ pc = "norm_done"
    /\ valor = Str(S_abc)
    /\ NormalizarIntento(valor) = Raised
    /\ valor_normalizado = Returned(None)

-----------------------------------------------------------------------------
(* Inputs of buscar_columna_valor: sheets of up to MaxColumnas columns     *)
(* with distinct labels (pandas makes the labels of a sheet distinct) and  *)
(* at most one row, and a metric name, registered or not.                  *)

S_TOTAL_esp == <<" ", "T", "O", "T", "A", "L", " ">>

S_Subtotal == <<"S", "u", "b", "t", "o", "t", "a", "l">>

S_Valor == <<"V", "a", "l", "o", "r">>

S_SatisfEP == <<"S", "a", "t", "i", "s", "f", " ", "E", "P">>

EtiquetasLocate ==
    {Str(S_Ejecutivo), Str(S_Total), Str(S_TOTAL_esp), Str(S_Subtotal), Str(S_Valor)}

CeldasLocate == {NaN, Str(S_PctTMO), Str(S_SatisfEP)}

KpisLocate == {"TMO", "SatEP", "Desconocido"}

Inyectiva(f) == \A i, j \in DOMAIN f : f[i] = f[j] => i = j

HojasLocate ==
    UNION {
        {Df(c, r) :
            c \in {f \in [1..n -> EtiquetasLocate] : Inyectiva(f)},
            r \in {<<>>} \cup {<<f>> : f \in [1..n -> CeldasLocate]}}
        : n \in 0..MaxColumnas}

-----------------------------------------------------------------------------
(* Specification of a call of buscar_columna_valor.                        *)

InitLocate ==
    /\ hoja \in HojasLocate
    /\ kpi_buscado \in KpisLocate
    /\ columna = NotCalled
    /\ SoloLocate
    /\ pc = "loc_start"

Buscar ==
    /\ pc = "loc_start"
    /\ columna' = Returned(buscar_columna_valor(hoja, kpi_buscado))
    /\ pc' = "loc_done"
    /\ UNCHANGED <<hoja, kpi_buscado, otrosLocate>>

NextLocate == Buscar

SpecLocate == InitLocate /\ [][NextLocate]_vars

-----------------------------------------------------------------------------
(* Claims about buscar_columna_valor.                                      *)

\* the header, trimmed and compared without regard to case, equals "Total"
EsTotal(label) == label.kind = "str" /\ Upper(Strip(label.s)) = Upper(S_Total)

ConTotal(h) == {i \in 1..Len(h.cols) : EsTotal(h.cols[i])}

\* the patterns registered for the metric
Patrones(kpi) ==
    IF kpi \in DOMAIN kpi_patterns
    THEN {kpi_patterns[kpi][j] : j \in 1..Len(kpi_patterns[kpi])}
    ELSE {}

\* the value of column i in the first data row contains a pattern of the
\* metric, compared without regard to case
Coincide(h, i, kpi) ==
    /\ Len(h.rows) > 0
    /\ \E pat \in Patrones(kpi) : Contains(Upper(StrOf(h.rows[1][i])), Upper(pat))

ConPatron(h, kpi) == {i \in 1..Len(h.cols) : Coincide(h, i, kpi)}

\* C12: whenever the sheet has a column whose header, trimmed and compared
\* case-insensitively, equals "Total", locate returns that column (the first
\* of them), even when another column's first-row value matches a pattern of
\* the metric.
C12_TotalFirst ==
    (pc = "loc_done" /\ ConTotal(hoja) # {})
        => /\ ~columna.raised
           /\ columna.val \in ConTotal(hoja)
           /\ \A i \in ConTotal(hoja) : columna.val <= i

\* the third column is " TOTAL " and was returned although the first column
\* holds "%TMO" in the first row and the metric is TMO
C12_Witness ==
    /\ pc = "loc_done"
    /\ Len(hoja.cols) = 3
    /\ hoja.cols[3] = Str(S_TOTAL_esp)
    /\ ConTotal(hoja) = {3}
    /\ kpi_buscado = "TMO"
    /\ Coincide(hoja, 1, "TMO")
    /\ columna = Returned(3)

\* C13: when no header equals "Total", locate returns the first column, in
\* column order, whose first-data-row value contains, case-insensitively, a
\* pattern registered for the requested metric; when there is none it
\* returns the second column if the sheet has at least two columns and
\* NotFound (0) otherwise.
C13_PatternThenSecond ==
    (pc = "loc_done" /\ ConTotal(hoja) = {})
        => /\ ~columna.raised
           /\ ConPatron(hoja, kpi_buscado) # {}
                => /\ columna.val \in ConPatron(hoja, kpi_buscado)
                   /\ \A i \in ConPatron(hoja, kpi_buscado) : columna.val <= i
           /\ (ConPatron(hoja, kpi_buscado) = {} /\ Len(hoja.cols) >= 2)
                => columna.val = 2
           /\ (ConPatron(hoja, kpi_buscado) = {} /\ Len(hoja.cols) < 2)
                => columna.val = 0

\* no Total header, and the third column was returned because its first-row
\* value "%TMO" holds the pattern "%tmo" in another case
C13_Witness ==
    /\ pc = "loc_done"
    /\ ConTotal(hoja) = {}
    /\ kpi_buscado = "TMO"
    /\ ConPatron(hoja, "TMO") = {3}
    /\ hoja.rows[1][3] = Str(S_PctTMO)
    /\ columna = Returned(3)

\* C30: for a sheet with at least two columns, the value column that
\* buscar_columna_valor returns is never the first column of the sheet,
\* the one that holds the executives' names.
C30_ValueColumnNeverNameColumn ==
    (pc = "loc_done" /\ Len(hoja.cols) >= 2) => columna # Returned(1)

-----------------------------------------------------------------------------
(* detectar_tipo_kpi, src/main.py 231-295.  The bytes of a readable file   *)
(* are the grid of its rows; strings of the result are str values, None is *)
(* the record None.                                                        *)

Xlsx(filas) == [kind |-> "xlsx", filas |-> filas]

\* pd.read_excel(tmp_path): the first row of the file gives the labels
LeerConCabecera(a) ==
    IF a.filas = <<>> THEN Df(<<>>, <<>>) ELSE Df(Head(a.filas), Tail(a.filas))

\* pd.read_excel(tmp_path, header=None): every row of the file is a row
LeerSinCabecera(a) == a.filas

\* sep.join(strs)
RECURSIVE Join(_, _)
Join(strs, sep) ==
    IF strs = <<>> THEN <<>>
    ELSE IF Len(strs) = 1 THEN strs[1]
    ELSE strs[1] \o sep \o Join(Tail(strs), sep)

\* " ".join([str(v) for v in primera_fila.values]).upper()
PrimeraFilaStr(d) == Upper(Join([i \in 1..Len(d.rows[1]) |-> StrOf(d.rows[1][i])], <<" ">>))

S_SATISF == <<"S", "A", "T", "I", "S", "F">>
S_RESOL == <<"R", "E", "S", "O", "L">>
S_TMO == <<"T", "M", "O">>
S_TRANSF == <<"T", "R", "A", "N", "S", "F">>
S_TIPIF == <<"T", "I", "P", "I", "F">>
S_SATISFACCION == <<"S", "A", "T", "I", "S", "F", "A", "C", "C", "I", "O", "N">>
S_RESOLUCION == <<"R", "E", "S", "O", "L", "U", "C", "I", "O", "N">>
S_TRANSF_EPA == <<"T", "R", "A", "N", "S", "F", " ", "E", "P", "A">>
S_TIPIFICACIONES == <<"T", "I", "P", "I", "F", "I", "C", "A", "C", "I", "O", "N", "E", "S">>
S_SERVICIO_es == <<"S", "E", "R", "V", "I", "C", "I", "O", " ", "e", "s">>
S_SERVICIO_es_EP == <<"S", "E", "R", "V", "I", "C", "I", "O", " ", "e", "s", " ", "E", "P">>
S_SERVICIO_es_SNL == <<"S", "E", "R", "V", "I", "C", "I", "O", " ", "e", "s", " ", "S", "N", "L">>
S_EP == <<"E", "P">>
S_SNL == <<"S", "N", "L">>
S_NA == <<"N", "/", "A">>
S_Desconocido == <<"D", "e", "s", "c", "o", "n", "o", "c", "i", "d", "o">>
S_ErrorAlDetectar == <<"E", "r", "r", "o", "r", " ", "a", "l", " ", "d", "e", "t", "e", "c", "t", "a", "r">>
S_Satisfaccion_ == <<"S", "a", "t", "i", "s", "f", "a", "c", "c", "i", "ó", "n", " ">>
S_Resolucion_ == <<"R", "e", "s", "o", "l", "u", "c", "i", "ó", "n", " ">>
S_Transferencias_ == <<"T", "r", "a", "n", "s", "f", "e", "r", "e", "n", "c", "i", "a", "s", " ">>

\* a chain of tests that looks for TMO before the other families
MetricaTMOPrimero(d) ==
    IF Len(d.rows) > 0 THEN
        LET primera_fila_str == PrimeraFilaStr(d)
        IN  IF Contains(primera_fila_str, S_TMO) THEN S_TMO
            ELSE IF Contains(primera_fila_str, S_SATISF) THEN S_SATISFACCION
            ELSE IF Contains(primera_fila_str, S_RESOL) THEN S_RESOLUCION
            ELSE IF Contains(primera_fila_str, S_TRANSF) THEN S_TRANSF_EPA
            ELSE IF Contains(primera_fila_str, S_TIPIF) THEN S_TIPIFICACIONES
            ELSE None
    ELSE None

\* metrica, 245-260
Metrica(d) ==
    IF Len(d.rows) > 0 THEN
        LET primera_fila_str == PrimeraFilaStr(d)
        IN  IF Contains(primera_fila_str, S_SATISF) THEN S_SATISFACCION
            ELSE IF Contains(primera_fila_str, S_RESOL) THEN S_RESOLUCION
            ELSE IF Contains(primera_fila_str, S_TMO) THEN S_TMO
            ELSE IF Contains(primera_fila_str, S_TRANSF) THEN S_TRANSF_EPA
            ELSE IF Contains(primera_fila_str, S_TIPIF) THEN S_TIPIFICACIONES
            ELSE None
    ELSE None

\* col_val and isinstance(col_val, str) and "SERVICIO es" in col_val
NombraServicio(col_val) ==
    col_val.kind = "str" /\ col_val.s # <<>> /\ Contains(col_val.s, S_SERVICIO_es)

\* the inner loop over one row, 264-270: the first cell that names a service
\* sets servicio, or leaves it as it was, and the break ends the row
ServicioDeFila(row, servicio) ==
    LET nombran == {i \in 1..Len(row) : NombraServicio(row[i])}
    IN  IF nombran = {} THEN servicio
        ELSE LET col_val == row[Min(nombran)].s
             IN  IF Contains(col_val, S_SERVICIO_es_EP) THEN S_EP
                 ELSE IF Contains(col_val, S_SERVICIO_es_SNL) THEN S_SNL
                 ELSE servicio

\* the outer loop, 263: every row of df_raw is visited, the break of the inner
\* loop does not end it
RECURSIVE Servicio(_, _)
Servicio(filas, servicio) ==
    IF filas = <<>> THEN servicio
    ELSE Servicio(Tail(filas), ServicioDeFila(Head(filas), servicio))

\* a label that qualifies every family with the segment
TipoCompletoCalificaTodo(metrica, servicio) ==
    IF metrica # None /\ servicio # None THEN
        IF metrica = S_SATISFACCION THEN S_Satisfaccion_ \o servicio
        ELSE IF metrica = S_RESOLUCION THEN S_Resolucion_ \o servicio
        ELSE IF metrica = S_TRANSF_EPA THEN S_Transferencias_ \o servicio
        ELSE metrica \o <<" ">> \o servicio
    ELSE IF metrica # None THEN metrica
    ELSE S_Desconocido

\* tipo_completo, 273-285
TipoCompleto(metrica, servicio) ==
    IF metrica # None /\ servicio # None THEN
        IF metrica = S_SATISFACCION THEN S_Satisfaccion_ \o servicio
        ELSE IF metrica = S_RESOLUCION THEN S_Resolucion_ \o servicio
        ELSE IF metrica = S_TRANSF_EPA THEN S_Transferencias_ \o servicio
        ELSE metrica
    ELSE IF metrica # None THEN metrica
    ELSE S_Desconocido

\* x or "N/A"
OrNA(x) == IF x = None THEN S_NA ELSE x

\* the try block, 236-291: Raised is the exception of pd.read_excel on bytes
\* it cannot read
DetectarIntento(a) ==
    IF a.kind = "unreadable" THEN Raised
    ELSE LET metrica == Metrica(LeerConCabecera(a))
             servicio == Servicio(LeerSinCabecera(a), None)
         IN  Returned([tipo |-> TipoCompleto(metrica, servicio),
                       servicio |-> OrNA(servicio),
                       metrica |-> OrNA(metrica)])

ErrorAlDetectar == [tipo |-> S_ErrorAlDetectar, servicio |-> S_NA, metrica |-> S_NA]

\* a handler that lets the exception escape
DejarPasar(o) == o

\* except Exception: return the error result
CapturarDeteccion(o) == IF o.raised THEN Returned(ErrorAlDetectar) ELSE o

detectar_tipo_kpi(a) == CapturarDeteccion(DetectarIntento(a))

-----------------------------------------------------------------------------
(* Inputs of detectar_tipo_kpi: unreadable bytes, and files of up to       *)
(* MaxFilasDetect rows of two cells drawn from a few kinds of row.         *)

FilasDetect ==
    { <<Str(S_Ejecutivo), Str(S_Total)>>,
      <<Str(S_Ejecutivo), Str(S_PctSatisf)>>,
      <<Str(<<"%", "R", "e", "s", "o", "l">>), Str(S_PctTMO)>>,
      <<Str(<<"%", "T", "r", "a", "n", "s", "f">>), Str(<<"T", "i", "p", "i", "f">>)>>,
      <<Str(<<"T", "M", "O">>), Str(<<"s", "a", "t", "i", "s", "f">>)>>,
      <<Str(<<"F", "i", "l", "t", "r", "o", "s", " ", "a", "p", "l", "i", "c", "a", "d", "o", "s", ":", " ", "S", "E", "R", "V", "I", "C", "I", "O", " ", "e", "s", " ", "E", "P">>), NaN>>,
      <<NaN, Str(S_SERVICIO_es_SNL)>>,
      <<Str(S_SERVICIO_es_EP), Str(S_SERVICIO_es_SNL)>>,
      <<Str(<<"S", "E", "R", "V", "I", "C", "I", "O", " ", "e", "s", " ", "P", "Y", "M", "E">>), Str(S_SERVICIO_es_SNL)>>,
      <<Str(S_JuanPerez), Num(9550, 2)>>,
      <<Str(S_Ejecutivo), Str(S_PctTMO)>>,
      <<Str(<<"T", "i", "p", "i", "f">>), NaN>> }

ArchivosDetect ==
    {Unreadable} \cup {Xlsx(f) : f \in UNION {[1..n -> FilasDetect] : n \in 0..MaxFilasDetect}}

-----------------------------------------------------------------------------
(* Specification of a call of detectar_tipo_kpi.                           *)

InitDetect ==
    /\ archivo_bytes \in ArchivosDetect
    /\ tipo_kpi = NotCalled
    /\ SoloDetect
    /\ pc = "det_start"

Detectar ==
    /\ pc = "det_start"
    /\ tipo_kpi' = detectar_tipo_kpi(archivo_bytes)
    /\ pc' = "det_done"
    /\ UNCHANGED <<archivo_bytes, otrosDetect>>

NextDetect == Detectar

SpecDetect == InitDetect /\ [][NextDetect]_vars

-----------------------------------------------------------------------------
(* Claims about detectar_tipo_kpi.                                         *)

\* C18: detect never fails: for every input, unparseable bytes included, it
\* returns a result with the three fields metric family, service segment and
\* display label, and the result is the error sentinel when parsing raises.
C18_DetectNeverFails ==
    pc = "det_done" =>
        /\ ~tipo_kpi.raised
        /\ DOMAIN tipo_kpi.val = {"tipo", "servicio", "metrica"}
        /\ archivo_bytes = Unreadable
              => tipo_kpi.val = [tipo |-> S_ErrorAlDetectar, servicio |-> S_NA, metrica |-> S_NA]

\* bytes pandas cannot read gave the error result
C18_Witness ==
    /\ pc = "det_done"
    /\ archivo_bytes = Unreadable
    /\ tipo_kpi.val.tipo = S_ErrorAlDetectar

\* the families in the order of the claim C19, each with its substring
Prioridad ==
    << <<S_SATISF, S_SATISFACCION>>, <<S_RESOL, S_RESOLUCION>>, <<S_TMO, S_TMO>>,
       <<S_TRANSF, S_TRANSF_EPA>>, <<S_TIPIF, S_TIPIFICACIONES>> >>

\* the upper-cased concatenation of the cells of the first data row (the
\* second row of the file), the empty text when the file has no such row
TextoPrimeraFila(a) ==
    IF Len(a.filas) < 2 THEN <<>>
    ELSE Upper(Join([i \in 1..Len(a.filas[2]) |-> StrOf(a.filas[2][i])], <<" ">>))

FamiliaEsperada(a) ==
    LET hay == {i \in 1..Len(Prioridad) : Contains(TextoPrimeraFila(a), Prioridad[i][1])}
    IN  IF hay = {} THEN S_NA ELSE Prioridad[Min(hay)][2]

\* C19: detect chooses the metric family by the first match, in the order
\* SATISF, RESOL, TMO, TRANSF, TIPIF, of a substring in the upper-cased
\* concatenation of the cells of the first data row; no match, no family.
C19_FamilyByPriority ==
    (pc = "det_done" /\ archivo_bytes # Unreadable)
        => tipo_kpi.val.metrica = FamiliaEsperada(archivo_bytes)

\* the first data row holds "TMO" and "satisf": the family is SATISFACCION
C19_Witness ==
    /\ pc = "det_done"
    /\ archivo_bytes # Unreadable
    /\ Len(archivo_bytes.filas) >= 2
    /\ archivo_bytes.filas[2] = <<Str(<<"T", "M", "O">>), Str(<<"s", "a", "t", "i", "s", "f">>)>>
    /\ tipo_kpi.val.metrica = S_SATISFACCION

\* the cells of the file, rows in order and cells in order
RECURSIVE Celdas(_)
Celdas(filas) == IF filas = <<>> THEN <<>> ELSE Head(filas) \o Celdas(Tail(filas))

\* the segment named by the first cell that holds "SERVICIO es"
SegmentoEsperado(a) ==
    LET celdas == Celdas(a.filas)
        hay == {i \in 1..Len(celdas) :
                   celdas[i].kind = "str" /\ Contains(celdas[i].s, S_SERVICIO_es)}
    IN  IF hay = {} THEN S_NA
        ELSE LET c == celdas[Min(hay)].s
             IN  IF Contains(c, S_SERVICIO_es_EP) THEN S_EP
                 ELSE IF Contains(c, S_SERVICIO_es_SNL) THEN S_SNL
                 ELSE S_NA

\* C20: detect decides the service segment from the first cell, rows in
\* order and cells in order, that contains "SERVICIO es" (EP or SNL) and
\* stops there: cells in later rows never change the detected segment.
C20_FirstServiceCellDecides ==
    (pc = "det_done" /\ archivo_bytes # Unreadable)
        => tipo_kpi.val.servicio = SegmentoEsperado(archivo_bytes)

\* the display name of the families whose label carries the segment
NombreCalificado ==
    << <<S_SATISFACCION, S_Satisfaccion_>>, <<S_RESOLUCION, S_Resolucion_>>,
       <<S_TRANSF_EPA, S_Transferencias_>> >>

Segmentos == {S_EP, S_SNL}

\* C21 as stated: the label is "<name> <seg>" for the Satisfaccion,
\* Resolucion and Transferencias families, the family name for TMO and
\* Tipificaciones whatever the segment, and "Desconocido" exactly when no
\* family matched (files that could be read).
C21_LabelSegmentQualified ==
    (pc = "det_done" /\ archivo_bytes # Unreadable) =>
        LET r == tipo_kpi.val
        IN  /\ \A i \in 1..Len(NombreCalificado) :
                  r.metrica = NombreCalificado[i][1]
                      => \E seg \in Segmentos : r.tipo = NombreCalificado[i][2] \o seg
            /\ r.metrica \in {S_TMO, S_TIPIFICACIONES} => r.tipo = r.metrica
            /\ r.tipo = S_Desconocido <=> r.metrica = S_NA

\* C21 amended: for a file that could be read, the label of the
\* Satisfaccion, Resolucion and Transferencias families is "<name> <seg>"
\* when a segment was detected and the family name (SATISFACCION,
\* RESOLUCION, TRANSF EPA) when none was; it is the family name for TMO and
\* Tipificaciones whatever the segment, and "Desconocido" exactly when no
\* family matched.
C21_LabelQualifiedWhenSegment ==
    (pc = "det_done" /\ archivo_bytes # Unreadable) =>
        LET r == tipo_kpi.val
        IN  /\ \A i \in 1..Len(NombreCalificado) :
                  r.metrica = NombreCalificado[i][1]
                      => /\ r.servicio \in Segmentos
                              => r.tipo = NombreCalificado[i][2] \o r.servicio
                         /\ r.servicio = S_NA => r.tipo = r.metrica
            /\ r.servicio \in Segmentos \cup {S_NA}
            /\ r.metrica \in {S_TMO, S_TIPIFICACIONES} => r.tipo = r.metrica
            /\ r.tipo = S_Desconocido <=> r.metrica = S_NA

\* a TMO file with a detected segment keeps the bare label "TMO"
C21_Witness ==
    /\ pc = "det_done"
    /\ archivo_bytes # Unreadable
    /\ tipo_kpi.val.metrica = S_TMO
    /\ tipo_kpi.val.servicio = S_SNL
    /\ tipo_kpi.val.tipo = S_TMO

-----------------------------------------------------------------------------
(* The admin workflow of src/main.py: upload_files (935-1009),              *)
(* preview_data_view (1012-...) and confirm_insertion (1271-1304) over the *)
(* preview store.  A handler is split at its awaits: the validation of the *)
(* token by the main API, the reading of the uploaded files, the POST to   *)
(* the webhook.  The field carga of a session is history: the number of    *)
(* the upload that created it.                                             *)

StartsWith(s, p) == Len(s) >= Len(p) /\ SubSeq(s, 1, Len(p)) = p

\* s.split(" ", 1)[1] of a text that holds a space
TrasEspacio(s) ==
    LET i == Min({k \in 1..Len(s) : s[k] = " "}) IN SubSeq(s, i + 1, Len(s))

S_bearer_ == <<"b", "e", "a", "r", "e", "r", " ">>

\* extract_bearer_token, 122-138: the token, or the status of the HTTPException
extract_bearer_token(authorization) ==
    IF authorization = None \/ authorization = Str(<<>>)
    THEN [status |-> 401, token |-> <<>>]
    ELSE IF ~StartsWith(Lower(authorization.s), S_bearer_)
    THEN [status |-> 401, token |-> <<>>]
    ELSE [status |-> 200, token |-> TrasEspacio(authorization.s)]

\* the users the main API knows, by token
T_adm == <<"a", "d", "m">>

T_sup == <<"s", "u", "p">>

T_exp == <<"e", "x", "p">>

T_eje == <<"e", "j", "e">>

T_jef == <<"j", "e", "f">>

\* a user as the main API describes it; a text key the reply does not hold is ""
Admin ==
    [email |-> "admin@gtr.cl", correo |-> "", nombre |-> "Ada", nombre_mostrar |-> "",
     rut |-> "", rol |-> "admin", role_id |-> 99, is_admin |-> TRUE]

Supervisor ==
    [email |-> "sup@gtr.cl", correo |-> "", nombre |-> "Sol", nombre_mostrar |-> "",
     rut |-> "", rol |-> "supervisor", role_id |-> 2, is_admin |-> FALSE]

\* a user of role 1, which ROLE_MAP (src/api_dashboard.py 45-50) names
\* "ejecutivo"
Ejecutivo ==
    [email |-> "", correo |-> "eje@gtr.cl", nombre |-> "Eva", nombre_mostrar |-> "",
     rut |-> "1-9", rol |-> "ejecutivo", role_id |-> 1, is_admin |-> FALSE]

\* a second admin, described with correo and nombre_mostrar
Jefa ==
    [email |-> "", correo |-> "jefa@gtr.cl", nombre |-> "Julia", nombre_mostrar |-> "Jul",
     rut |-> "2-7", rol |-> "admin", role_id |-> 99, is_admin |-> FALSE]

\* GET {MAIN_API_URL}/api/auth/me with the token
AuthMe(token) ==
    IF token = T_adm THEN [status |-> 200, user |-> Admin]
    ELSE IF token = T_sup THEN [status |-> 200, user |-> Supervisor]
    ELSE IF token = T_eje THEN [status |-> 200, user |-> Ejecutivo]
    ELSE IF token = T_jef THEN [status |-> 200, user |-> Jefa]
    ELSE [status |-> 401, user |-> None]

\* validate_token_with_main_api, 53-85; the API may be out of reach
validate_token_with_main_api(token, alcanzable) ==
    IF ~alcanzable THEN [status |-> 503, user |-> None]
    ELSE LET response == AuthMe(token)
         IN  IF response.status = 200 THEN response
             ELSE [status |-> 401, user |-> None]

\* a check that takes every user for an admin
TodosAdmin(user) == TRUE

\* is_admin, 108-112
EsAdmin(user) ==
    user.rol = "admin" \/ user.role_id \in {99, 1} \/ user.is_admin = TRUE

\* require_admin_token, 88-119: [status, user, validacion]; validacion is
\* what validate_token_with_main_api gave
require_admin_token(token, alcanzable) ==
    LET v == validate_token_with_main_api(token, alcanzable)
    IN  IF v.status # 200 THEN [status |-> v.status, user |-> None, validacion |-> v]
        ELSE IF ~EsAdmin(v.user) THEN [status |-> 403, user |-> None, validacion |-> v]
        ELSE [status |-> 200, user |-> v.user, validacion |-> v]

\* the parts of a text between the "-"
Partes(s) ==
    LET g == <<0>> \o SelectSeq([k \in 1..Len(s) |-> IF s[k] = "-" THEN k ELSE 0],
                                LAMBDA k : k # 0) \o <<Len(s) + 1>>
    IN  [j \in 1..(Len(g) - 1) |-> SubSeq(s, g[j] + 1, g[j + 1] - 1)]

\* the days of a month of the proleptic Gregorian calendar
DiasDelMes(anio, mes) ==
    IF mes \in {4, 6, 9, 11} THEN 30
    ELSE IF mes # 2 THEN 31
    ELSE IF anio % 4 = 0 /\ (anio % 100 # 0 \/ anio % 400 = 0) THEN 29
    ELSE 28

\* a confirm that sends whatever date the session holds
FechaSinComprobar(fecha_registro) == TRUE

\* datetime.strptime(fecha_registro, "%Y-%m-%d") does not raise, 390
FechaValida(fecha_registro) ==
    LET p == Partes(fecha_registro)
    IN  /\ Len(p) = 3
        /\ \A j \in 1..3 : p[j] # <<>> /\ AllDigits(p[j])
        /\ Len(p[1]) = 4 /\ Len(p[2]) <= 2 /\ Len(p[3]) <= 2
        /\ DigitsValue(p[1]) >= 1
        /\ DigitsValue(p[2]) \in 1..12
        /\ DigitsValue(p[3]) \in 1..DiasDelMes(DigitsValue(p[1]), DigitsValue(p[2]))

\* the forms a client submits to /upload: files, "omitir" boxes, date
Formularios ==
    << [archivos |-> ("TMO" :> ArchivoA), omitir |-> {},
        fecha_registro |-> <<"2", "0", "2", "5", "-", "0", "1", "-", "1", "5">>],
       [archivos |-> ("TMO" :> ArchivoJuanEtiqueta) @@ ("SatEP" :> ArchivoB),
        omitir |-> {"SatEP"}, fecha_registro |-> <<"1", "5", "/", "0", "1", "/", "2", "0", "2", "5">>],
       [archivos |-> ("TMO" :> ArchivoA), omitir |-> {},
        fecha_registro |-> <<"2", "0", "2", "5", "-", "0", "2", "-", "3", "0">>] >>

\* archivos_data, 975-989: the files provided for metrics not omitted
ArchivosData(f) ==
    [k \in {x \in DOMAIN f.archivos : x \notin f.omitir} |-> f.archivos[k]]

\* the outcomes of unificar_datos_kpi for each form
ResultadosUnificar ==
    [i \in DOMAIN Formularios |->
        unificar_datos_kpi(ArchivosData(Formularios[i]), Formularios[i].omitir)]

Borrar(store, session_id) == [k \in DOMAIN store \ {session_id} |-> store[k]]

\* datetime.now().strftime("%Y%m%d%H%M%S"): one identifier per second
SessionId(segundo) == segundo

\* a or b, for texts: the empty text is falsy
O(a, b) == IF a # "" THEN a ELSE b

\* d.get(key, default), the key being absent exactly when the field is ""
GetOr(v, default) == IF v # "" THEN v ELSE default

\* the payload field ingresado_por, 398-406
IngresadoPor(digitador) ==
    IF digitador = None
    THEN [email |-> "sistema", nombre |-> "Sistema", rol |-> "system"]
    ELSE [email |-> O(digitador.email, GetOr(digitador.correo, "unknown")),
          nombre |-> O(digitador.nombre_mostrar, GetOr(digitador.nombre, "Desconocido")),
          rut |-> digitador.rut,
          rol |-> GetOr(digitador.rol, "admin")]

\* the replies of the webhook: 200 with a JSON body, 200 with a body that is
\* no JSON, another status, no reply (timeout, connection error)
RespuestasWebhook ==
    {[status |-> 200, json |-> TRUE], [status |-> 200, json |-> FALSE],
     [status |-> 500, json |-> TRUE], [status |-> 0, json |-> FALSE]}

\* result["success"] of enviar_a_n8n after the POST, 420-429: response.json()
\* raises on a body that is no JSON and the except clause reports a failure
Success(r) == r.status = 200 /\ r.json

\* a confirm that takes the session out of the store when it reads it
RetirarAlComprobar(store, session_id) == Borrar(store, session_id)

\* data = preview_data[session_id], 1284: the store after the read
TrasComprobar(store, session_id) == store

\* a confirm that deletes the session whatever the result
BorrarSiempre(store, session_id, success) == Borrar(store, session_id)

\* if result["success"]: del preview_data[session_id], 1291-1292
TrasEnvio(store, session_id, success) ==
    IF success THEN Borrar(store, session_id) ELSE store

\* a confirm that names its own caller
DigitadorActual(data, admin_user) == admin_user

\* digitador = data.get("digitador") or admin_user, 1286
Digitador(data, admin_user) ==
    IF data.digitador # None THEN data.digitador ELSE admin_user

EnVuelo(tipo) == Cardinality({c \in Clientes : peticiones[c].tipo = tipo})

\* the uploads, calls of the webhook and ticks done or on their way are
\* fewer than MaxOperaciones
QuedaOperacion ==
    (reloj - 1) + extracciones + EnVuelo("upload") + Len(n8n) + EnVuelo("confirm")
        < MaxOperaciones

\* a request arrives and waits for its handler to validate it
Peticion(tipo, authorization, session_id, formulario) ==
    [Libre EXCEPT !.tipo = tipo, !.paso = "validando", !.authorization = authorization,
                  !.session_id = session_id, !.formulario = formulario]

\* token = extract_bearer_token(authorization);
\* admin_user = await require_admin_token(token): [status, user]
Autorizar(authorization, alcanzable) ==
    LET e == extract_bearer_token(authorization)
    IN  IF e.status # 200 THEN [status |-> e.status, user |-> None]
        ELSE require_admin_token(e.token, alcanzable)

\* POST /upload arrives
RecibirUpload(c, authorization, i) ==
    /\ pc = "sesion"
    /\ peticiones[c] = Libre
    /\ QuedaOperacion
    /\ peticiones' = [peticiones EXCEPT ![c] = Peticion("upload", authorization, 0, i)]
    /\ respuesta' = 0
    /\ UNCHANGED <<preview_data, reloj, n8n, llamada, extracciones, otrosSesion, pc>>

\* upload_files up to the reading of the files, 958-960: the header is
\* parsed and the token validated
ValidarUpload(c, alcanzable) ==
    /\ peticiones[c].tipo = "upload" /\ peticiones[c].paso = "validando"
    /\ LET r == Autorizar(peticiones[c].authorization, alcanzable)
       IN  IF r.status # 200
           THEN /\ respuesta' = r.status
                /\ peticiones' = [peticiones EXCEPT ![c] = Libre]
           ELSE /\ peticiones' = [peticiones EXCEPT ![c].paso = "leyendo",
                                                    ![c].admin_user = r.user]
                /\ UNCHANGED respuesta
    /\ UNCHANGED <<preview_data, reloj, n8n, llamada, extracciones, otrosSesion, pc>>

\* the files are read: unificar_datos_kpi, the session identifier, the store
\* and the response, 962-1009
Cargar(c) ==
    /\ peticiones[c].tipo = "upload" /\ peticiones[c].paso = "leyendo"
    /\ extracciones' = extracciones + 1
    /\ \E o \in ResultadosUnificar[peticiones[c].formulario] :
          IF o.raised
          THEN /\ respuesta' = 500
               /\ UNCHANGED preview_data
          ELSE LET session_id == SessionId(reloj)
                   f == Formularios[peticiones[c].formulario]
               IN  /\ preview_data' = Put(preview_data, session_id,
                          [registros |-> o.val,
                           fecha_registro |-> f.fecha_registro,
                           kpis_omitidos |-> f.omitir,
                           digitador |-> peticiones[c].admin_user,
                           carga |-> extracciones + 1])
                   /\ respuesta' = 200
    /\ peticiones' = [peticiones EXCEPT ![c] = Libre]
    /\ UNCHANGED <<reloj, n8n, llamada, otrosSesion, pc>>

\* GET /preview/{session_id}?t=... arrives
RecibirPreview(c, t, session_id) ==
    /\ pc = "sesion"
    /\ peticiones[c] = Libre
    /\ peticiones' = [peticiones EXCEPT ![c] = Peticion("preview", t, session_id, 0)]
    /\ respuesta' = 0
    /\ UNCHANGED <<preview_data, reloj, n8n, llamada, extracciones, otrosSesion, pc>>

\* preview_data_view, 1021-1050: "if not t", require_admin_token, then the
\* page is rendered from the store
ValidarPreview(c, alcanzable) ==
    /\ peticiones[c].tipo = "preview" /\ peticiones[c].paso = "validando"
    /\ LET t == peticiones[c].authorization
           session_id == peticiones[c].session_id
           r == IF t = None \/ t = Str(<<>>) THEN [status |-> 401, user |-> None]
                ELSE require_admin_token(t.s, alcanzable)
       IN  respuesta' = IF r.status # 200 THEN r.status
                        ELSE IF session_id \notin DOMAIN preview_data THEN 404
                        ELSE 200
    /\ peticiones' = [peticiones EXCEPT ![c] = Libre]
    /\ UNCHANGED <<preview_data, reloj, n8n, llamada, extracciones, otrosSesion, pc>>

\* POST /confirm/{session_id} arrives
RecibirConfirm(c, authorization, session_id) ==
    /\ pc = "sesion"
    /\ peticiones[c] = Libre
    /\ QuedaOperacion
    /\ peticiones' = [peticiones EXCEPT ![c] = Peticion("confirm", authorization, session_id, 0)]
    /\ respuesta' = 0
    /\ UNCHANGED <<preview_data, reloj, n8n, llamada, extracciones, otrosSesion, pc>>

\* confirm_insertion up to the POST, 1277-1289 and 389-421: the header is
\* parsed and the token validated, the session is looked up and read, and
\* enviar_a_n8n parses the date
ValidarConfirm(c, alcanzable) ==
    /\ peticiones[c].tipo = "confirm" /\ peticiones[c].paso = "validando"
    /\ LET r == Autorizar(peticiones[c].authorization, alcanzable)
           session_id == peticiones[c].session_id
       IN  IF r.status # 200
           THEN /\ respuesta' = r.status
                /\ peticiones' = [peticiones EXCEPT ![c] = Libre]
                /\ UNCHANGED preview_data
           ELSE IF session_id \notin DOMAIN preview_data
           THEN /\ respuesta' = 404
                /\ peticiones' = [peticiones EXCEPT ![c] = Libre]
                /\ UNCHANGED preview_data
           ELSE LET data == preview_data[session_id]
                IN  /\ preview_data' = TrasComprobar(preview_data, session_id)
                    /\ IF ~FechaValida(data.fecha_registro)
                       THEN /\ respuesta' = 500
                            /\ peticiones' = [peticiones EXCEPT ![c] = Libre]
                       ELSE /\ peticiones' = [peticiones EXCEPT
                                                ![c].paso = "enviando",
                                                ![c].admin_user = r.user,
                                                ![c].data = data]
                            /\ UNCHANGED respuesta
    /\ UNCHANGED <<reloj, n8n, llamada, extracciones, otrosSesion, pc>>

\* the POST of enviar_a_n8n ends with the reply r of the webhook; the result
\* is tested, the session deleted and the response sent, 421-429 and
\* 1291-1304.  del raises KeyError when the session is gone, and the except
\* clause answers 500.  The field confirma of llamada is history: the user
\* who sent the confirm.
ResponderWebhook(c, r) ==
    /\ peticiones[c].tipo = "confirm" /\ peticiones[c].paso = "enviando"
    /\ LET data == peticiones[c].data
           session_id == peticiones[c].session_id
           digitador == Digitador(data, peticiones[c].admin_user)
           presente == session_id \in DOMAIN preview_data
       IN  /\ n8n' = Append(n8n, [carga |-> data.carga, respuesta |-> r])
           /\ llamada' = [registros |-> data.registros,
                          fecha_registro |-> data.fecha_registro,
                          ingresado_por |-> IngresadoPor(digitador),
                          confirma |-> peticiones[c].admin_user]
           /\ preview_data' = TrasEnvio(preview_data, session_id, Success(r))
           /\ respuesta' = IF Success(r) /\ presente THEN 200 ELSE 500
    /\ peticiones' = [peticiones EXCEPT ![c] = Libre]
    /\ UNCHANGED <<reloj, extracciones, otrosSesion, pc>>

\* a second passes
Tic ==
    /\ pc = "sesion"
    /\ QuedaOperacion
    /\ reloj' = reloj + 1
    /\ UNCHANGED <<preview_data, n8n, llamada, peticiones, respuesta, extracciones, otrosSesion, pc>>

\* the headers of the uploads: none, another scheme, the admin Ada, a
\* supervisor, a token the main API does not know
CabecerasCarga ==
    {None, Str(<<"B", "a", "s", "i", "c", " ", "a", "d", "m">>), Str(<<"B", "e", "a", "r", "e", "r", " ", "a", "d", "m">>), Str(<<"b", "e", "a", "r", "e", "r", " ", "s", "u", "p">>), Str(<<"B", "e", "a", "r", "e", "r", " ", "e", "x", "p">>)}

\* the headers of the confirms: those, an ejecutivo and the admin Julia
Cabeceras ==
    CabecerasCarga \cup
        {Str(<<"B", "e", "a", "r", "e", "r", " ", "e", "j", "e">>), Str(<<"B", "E", "A", "R", "E", "R", " ", "j", "e", "f">>)}

TokensPreview == {None, Str(T_adm), Str(T_sup), Str(T_exp), Str(T_eje), Str(T_jef)}

\* the identifiers a client may ask for: those of the seconds gone by
SessionIds == 1..reloj

\* the headers and tokens of the requests that overlap: an admin and a user
\* who is no admin
CabecerasSolape == {Str(<<"B", "e", "a", "r", "e", "r", " ", "a", "d", "m">>), Str(<<"b", "e", "a", "r", "e", "r", " ", "s", "u", "p">>)}

TokensSolape == {Str(T_adm)}

InitSesion ==
    /\ SinSesion
    /\ SoloSesion
    /\ pc = "sesion"

NextSesion ==
    \/ Tic
    \/ \E c \in Clientes :
          \/ \E a \in CabecerasSolape, i \in DOMAIN Formularios : RecibirUpload(c, a, i)
          \/ \E a \in CabecerasSolape, id \in SessionIds : RecibirConfirm(c, a, id)
          \/ \E t \in TokensSolape, id \in SessionIds : RecibirPreview(c, t, id)
          \/ \E alcanzable \in BOOLEAN : ValidarUpload(c, alcanzable)
          \/ \E alcanzable \in BOOLEAN : ValidarConfirm(c, alcanzable)
          \/ \E alcanzable \in BOOLEAN : ValidarPreview(c, alcanzable)
          \/ Cargar(c)
          \/ \E r \in RespuestasWebhook : ResponderWebhook(c, r)

\* requests that overlap
SpecSesion == InitSesion /\ [][NextSesion]_vars

\* no request is in flight
NadieEnVuelo == \A c \in Clientes : peticiones[c] = Libre

\* requests that do not overlap: one arrives when no other is in flight (one
\* client sends them all)
NextSecuencial ==
    \/ Tic
    \/ \E c \in {"c1"} :
          \/ \E a \in CabecerasCarga, i \in DOMAIN Formularios :
                NadieEnVuelo /\ RecibirUpload(c, a, i)
          \/ \E a \in Cabeceras, id \in SessionIds :
                NadieEnVuelo /\ RecibirConfirm(c, a, id)
          \/ \E t \in TokensPreview, id \in SessionIds :
                NadieEnVuelo /\ RecibirPreview(c, t, id)
          \/ \E alcanzable \in BOOLEAN : ValidarUpload(c, alcanzable)
          \/ \E alcanzable \in BOOLEAN : ValidarConfirm(c, alcanzable)
          \/ \E alcanzable \in BOOLEAN : ValidarPreview(c, alcanzable)
          \/ Cargar(c)
          \/ \E r \in RespuestasWebhook : ResponderWebhook(c, r)

SpecSecuencial == InitSesion /\ [][NextSecuencial]_vars

-----------------------------------------------------------------------------
(* Claims about the session workflow.                                      *)

\* the calls of the webhook that forwarded the upload k and got status 200
Aceptadas(k) == {i \in 1..Len(n8n) : n8n[i].carga = k /\ n8n[i].respuesta.status = 200}

\* a confirm got the reply of the webhook in this step
LlegaRespuesta(c) == peticiones[c].paso = "enviando" /\ peticiones'[c] = Libre

\* C14: once a confirm of session s has succeeded (the webhook returned 200),
\* s is no longer in the preview store, and over any sequence of
\* non-overlapping requests the records of a session are successfully
\* forwarded (the webhook returns 200) at most once.
C14_ForwardedAtMostOnce ==
    /\ [][\A c \in Clientes :
            (LlegaRespuesta(c) /\ n8n'[Len(n8n')].respuesta.status = 200)
                => peticiones[c].session_id \notin DOMAIN preview_data']_vars
    /\ [](\A k \in 1..MaxOperaciones : Cardinality(Aceptadas(k)) <= 1)

\* the webhook call of a confirm failed, timed out or returned another status
FallaWebhook(c) == LlegaRespuesta(c) /\ n8n'[Len(n8n')].respuesta.status # 200

\* C15: when the webhook call of a confirm fails, times out or returns a
\* status other than 200, the confirm ends with an error response after that
\* single call, and the session stays in the preview store with unchanged
\* content, so that a later confirm of the same session can still succeed.
C15_FailedConfirmKeepsSession ==
    [][\A c \in Clientes :
          FallaWebhook(c)
              => /\ Len(n8n') = Len(n8n) + 1
                 /\ respuesta' = 500
                 /\ peticiones' = [peticiones EXCEPT ![c] = Libre]
                 /\ preview_data' = preview_data]_vars

\* the first confirm of the upload 1 got no reply from the webhook and the
\* second one was accepted and answered 200
C15_Witness ==
    /\ Len(n8n) = 2
    /\ n8n[1] = [carga |-> 1, respuesta |-> [status |-> 0, json |-> FALSE]]
    /\ n8n[2] = [carga |-> 1, respuesta |-> [status |-> 200, json |-> TRUE]]
    /\ respuesta = 200
    /\ preview_data = <<>>

\* the header is present and of the form "Bearer <token>"
FormaBearer(h) ==
    /\ h # None
    /\ Len(h.s) > 7
    /\ Lower(SubSeq(h.s, 1, 7)) = S_bearer_

TokenDe(h) == SubSeq(h.s, 8, Len(h.s))

NoEsAdmin(user) == user.rol # "admin" /\ user.role_id \notin {99, 1} /\ user.is_admin # TRUE

\* the request of client c is validated in this step
SeValida(c) ==
    /\ peticiones[c].tipo \in {"upload", "confirm"}
    /\ peticiones[c].paso = "validando"
    /\ peticiones'[c] # peticiones[c]

SinTrabajo(c) ==
    /\ peticiones'[c] = Libre
    /\ UNCHANGED <<preview_data, n8n, llamada, extracciones>>

PasaComprobacion(c) ==
    /\ peticiones[c].tipo = "confirm"
    /\ peticiones[c].paso = "validando"
    /\ peticiones'[c].paso = "enviando"

\* C17: two confirm requests for the same session id that overlap (both pass
\* the session-exists check before either deletes the session) both forward
\* the records of the session to the webhook: passing the check leaves the
\* session in the store for the other request, and every confirm that passed
\* the check calls the webhook with the records it read.
C17_OverlappingConfirmsBothForward ==
    [][\A c \in Clientes :
          /\ PasaComprobacion(c)
                => /\ preview_data' = preview_data
                   /\ peticiones'[c].data = preview_data[peticiones[c].session_id]
          /\ LlegaRespuesta(c)
                => /\ Len(n8n') = Len(n8n) + 1
                   /\ n8n'[Len(n8n')].carga = peticiones[c].data.carga
                   /\ llamada'.registros = peticiones[c].data.registros]_vars

\* the upload 1 was forwarded twice and the webhook accepted it both times
C17_Witness ==
    /\ Len(n8n) = 2
    /\ n8n[1] = [carga |-> 1, respuesta |-> [status |-> 200, json |-> TRUE]]
    /\ n8n[2] = [carga |-> 1, respuesta |-> [status |-> 200, json |-> TRUE]]

\* the fields of a session the code stores
Contenido(sesion) ==
    [registros |-> sesion.registros, fecha_registro |-> sesion.fecha_registro,
     kpis_omitidos |-> sesion.kpis_omitidos, digitador |-> sesion.digitador]

\* the session stored under id is in the store after the step as it was
Permanece(id) ==
    /\ id \in DOMAIN preview_data'
    /\ Contenido(preview_data'[id]) = Contenido(preview_data[id])

\* the preview of client c is rendered or refused in this step
SeRenderiza(c) ==
    /\ peticiones[c].tipo = "preview"
    /\ peticiones[c].paso = "validando"
    /\ peticiones'[c] = Libre

\* a confirm of the session id got status 200 from the webhook in this step
ConfirmaConExito(id) ==
    \E c \in Clientes :
        /\ LlegaRespuesta(c)
        /\ peticiones[c].session_id = id
        /\ n8n'[Len(n8n')].respuesta.status = 200

\* C22: rendering a preview never changes the preview store, and a session
\* leaves the store only through a confirm whose webhook call succeeded: a
\* session that is never successfully confirmed stays in the store in every
\* later state.
C22_SessionStaysUntilConfirmed ==
    [][/\ \A c \in Clientes : SeRenderiza(c) => preview_data' = preview_data
       /\ \A id \in DOMAIN preview_data : Permanece(id) \/ ConfirmaConExito(id)]_vars

\* the upload of client c stores its session and answers in this step
SeCarga(c) ==
    /\ peticiones[c].tipo = "upload"
    /\ peticiones[c].paso = "leyendo"
    /\ respuesta' = 200

\* C23: every successful upload creates its own session: it never replaces
\* or alters a session of an earlier upload that is still pending in the
\* store, so the store holds one session more and the earlier ones as they
\* were.
C23_UploadCreatesOwnSession ==
    [][\A c \in Clientes :
          SeCarga(c)
              => /\ \A id \in DOMAIN preview_data : Permanece(id)
                 /\ Cardinality(DOMAIN preview_data') = Cardinality(DOMAIN preview_data) + 1]_vars

\* the upload, confirm or preview request of client c passes or fails the
\* admin check in this step
SeCompruebaAdmin(c) ==
    /\ peticiones[c].tipo \in {"upload", "confirm", "preview"}
    /\ peticiones[c].paso = "validando"
    /\ peticiones'[c] # peticiones[c]

\* the request of client c carries a token: in the Authorization header of
\* an upload or a confirm, in the parameter t of a preview
LlevaToken(c) ==
    IF peticiones[c].tipo = "preview"
    THEN peticiones[c].authorization \notin {None, Str(<<>>)}
    ELSE FormaBearer(peticiones[c].authorization)

ElToken(c) ==
    IF peticiones[c].tipo = "preview" THEN peticiones[c].authorization.s
    ELSE TokenDe(peticiones[c].authorization)

\* C24: only administrators pass the admin check of upload, preview and
\* confirm: a validated user whose rol is not "admin", whose is_admin flag
\* is not true and whose role_id is not 99 is answered 403; a user with
\* role_id 1 ("ejecutivo") is rejected.
C24_OnlyAdminsPass ==
    [][\A c \in Clientes :
          (SeCompruebaAdmin(c) /\ LlevaToken(c) /\ respuesta' # 503
             /\ AuthMe(ElToken(c)).status = 200)
              => LET user == AuthMe(ElToken(c)).user
                 IN  (user.rol # "admin" /\ user.is_admin # TRUE /\ user.role_id # 99)
                        => (respuesta' = 403 /\ peticiones'[c] = Libre)]_vars

\* the payload names the user: the e-mail, name and role the main API gave
Identifica(ingresado_por, user) ==
    /\ ingresado_por.email \in {user.email, user.correo} \ {""}
    /\ ingresado_por.nombre \in {user.nombre_mostrar, user.nombre} \ {""}
    /\ ingresado_por.rol = user.rol

\* C27: the ingresado_por identity of the payload a confirm forwards is that
\* of the admin who uploaded the session, stored with the session at upload
\* time, also when a different admin sends the confirm; the caller of the
\* confirm is named only when the session holds no uploader.
C27_PayloadNamesUploader ==
    [][\A c \in Clientes :
          /\ SeCarga(c)
                => preview_data'[SessionId(reloj)].digitador
                      = AuthMe(TokenDe(peticiones[c].authorization)).user
          /\ PasaComprobacion(c)
                => peticiones'[c].data.digitador
                      = preview_data[peticiones[c].session_id].digitador
          /\ LlegaRespuesta(c)
                => LET uploader == peticiones[c].data.digitador
                   IN  IF uploader # None
                       THEN Identifica(llamada'.ingresado_por, uploader)
                       ELSE Identifica(llamada'.ingresado_por, peticiones[c].admin_user)]_vars

\* the admin Ada uploaded, the admin Julia confirmed, and the payload names Ada
C27_Witness ==
    /\ llamada # None
    /\ llamada.confirma = Jefa
    /\ llamada.ingresado_por.email = "admin@gtr.cl"
    /\ llamada.ingresado_por.nombre = "Ada"
    /\ Len(n8n) >= 1

\* C28: every confirm request whose webhook call returned status 200
\* answers the caller with a success response, under any interleaving with
\* other confirm requests for the same session id.  (Stated for replies with
\* a JSON body, with which a confirm that runs alone succeeds.)
C28_AcceptedConfirmAnswersSuccess ==
    [][\A c \in Clientes :
          (LlegaRespuesta(c) /\ n8n'[Len(n8n')].respuesta = [status |-> 200, json |-> TRUE])
              => respuesta' = 200]_vars

\* the text is a date written YYYY-MM-DD: a year of four digits, a month and
\* a day of one or two digits, "-" between them, and the day exists
EsFechaISO(texto) ==
    \E i \in 1..Len(texto), j \in 1..Len(texto) :
        /\ i = 5 /\ j \in {7, 8} /\ Len(texto) \in {j + 1, j + 2}
        /\ texto[i] = "-" /\ texto[j] = "-"
        /\ \A k \in 1..Len(texto) : k \notin {i, j} => EsDigito(texto[k])
        /\ LET anio == DigitsValue(SubSeq(texto, 1, 4))
               mes == DigitsValue(SubSeq(texto, i + 1, j - 1))
               dia == DigitsValue(SubSeq(texto, j + 1, Len(texto)))
           IN  /\ anio >= 1
               /\ mes \in 1..12
               /\ dia >= 1
               /\ dia <= (IF mes = 2 THEN (IF anio % 4 = 0 /\ (anio % 100 # 0 \/ anio % 400 = 0)
                                           THEN 29 ELSE 28)
                          ELSE IF mes \in {4, 6, 9, 11} THEN 30 ELSE 31)

\* the confirm of client c is validated in this step and its caller is an
\* admin the main API vouched for
ConfirmaAdmin(c) ==
    /\ peticiones[c].tipo = "confirm"
    /\ peticiones[c].paso = "validando"
    /\ peticiones'[c] # peticiones[c]
    /\ respuesta' \notin {401, 403, 503}

\* the upload of client c reads its files in this step
SeLee(c) ==
    /\ peticiones[c].tipo = "upload"
    /\ peticiones[c].paso = "leyendo"
    /\ peticiones'[c] = Libre

\* C29: upload accepts any fecha_registro string without validation, and
\* for a session whose fecha_registro is not a valid YYYY-MM-DD date every
\* confirm returns an error without sending any request to the webhook and
\* leaves the session in the store: such a session is never confirmed.
C29_InvalidDateNeverConfirmed ==
    [][\A c \in Clientes :
          /\ SeLee(c)
                => /\ respuesta' = 200
                   /\ preview_data'[SessionId(reloj)].fecha_registro
                         = Formularios[peticiones[c].formulario].fecha_registro
          /\ (ConfirmaAdmin(c) /\ peticiones[c].session_id \in DOMAIN preview_data
                 /\ ~EsFechaISO(preview_data[peticiones[c].session_id].fecha_registro))
                => /\ respuesta' = 500
                   /\ peticiones'[c] = Libre
                   /\ n8n' = n8n
                   /\ preview_data' = preview_data]_vars

\* an upload dated 2025-02-30 was confirmed: error, no call, session kept
C29_Witness ==
    /\ respuesta = 500
    /\ n8n = <<>>
    /\ extracciones = 1
    /\ \A c \in Clientes : peticiones[c] = Libre
    /\ \E id \in DOMAIN preview_data :
          preview_data[id].fecha_registro = <<"2", "0", "2", "5", "-", "0", "2", "-", "3", "0">>

-----------------------------------------------------------------------------
(* The API of users: login of src/api_dashboard.py (63-127) and the admin  *)
(* endpoints of src/admin_users.py (63-327) over the table users and the   *)
(* token store.  A row of users is [correo, password_hash, is_active,      *)
(* role_id]; its field baja is history: disable_user deactivated the row.  *)
(* A bcrypt hash is [esquema |-> "$2b$", de |-> the password hashed].      *)

MaxPeticiones == 4   \* most requests to the API of users and ticks of its clock together
MaxUsuarios == 4     \* most rows of the table users

\* ROLE_MAP.get(int(role_id), "ejecutivo")
ROLE_MAP(role_id) ==
    CASE role_id = 1 -> "ejecutivo"
      [] role_id = 2 -> "supervisor"
      [] role_id = 3 -> "jefatura"
      [] role_id = 99 -> "admin"
      [] OTHER -> "ejecutivo"

\* bcrypt.hashpw(plain, salt): a hash that starts with "$2b$"
Bcrypt(plain) == [esquema |-> "$2b$", de |-> plain]

\* the hash seed_users.py leaves until migrate_passwords.py runs
PENDING_HASH == [esquema |-> "PENDING_HASH", de |-> <<>>]

\* verify_password, api_dashboard.py 53-61
verify_password(plain, password_hash) ==
    IF plain = <<>> THEN FALSE
    ELSE IF Len(plain) > 72 THEN FALSE
    ELSE password_hash.esquema = "$2b$" /\ password_hash.de = plain

\* the text of an optional field of a request body, "" when it is absent
Texto(campo) == IF campo = None THEN <<>> ELSE campo.s

\* the ids of the rows WHERE correo = email
FilasConCorreo(tabla, email) == {i \in 1..Len(tabla) : tabla[i].correo = email}

\* the try block of login, 73-114: the status of the HTTPException raised,
\* or the id of the user who gets a token
LoginIntento(tabla, email, password) ==
    LET filas == FilasConCorreo(tabla, email)
    IN  IF filas = {} THEN [raised |-> TRUE, status |-> 401, user_id |-> 0]
        ELSE LET id == CHOOSE i \in filas : TRUE
                 user == tabla[id]
             IN  IF user.password_hash.esquema # "$2b$"
                 THEN [raised |-> TRUE, status |-> 401, user_id |-> 0]
                 ELSE IF ~verify_password(password, user.password_hash)
                 THEN [raised |-> TRUE, status |-> 401, user_id |-> 0]
                 ELSE IF user.is_active = 0
                 THEN [raised |-> TRUE, status |-> 403, user_id |-> 0]
                 ELSE [raised |-> FALSE, status |-> 200, user_id |-> id]

\* except Exception: raise HTTPException(status_code=401), 115-117; the
\* HTTPException of the try block is an Exception too
CapturarLogin(o) == IF o.raised THEN [o EXCEPT !.status = 401] ELSE o

\* secrets.token_urlsafe(32): a token no earlier call gave
Token(k) == <<"t">> \o IntStr(k)

\* login, 63-127: [status, user_id]; bd says whether the database answers
login(tabla, payload, bd) ==
    LET email == Lower(Strip(Texto(payload.email)))
        password == Texto(payload.password)
    IN  IF email = <<>> \/ password = <<>> THEN [status |-> 401, user_id |-> 0]
        ELSE IF ~bd THEN [status |-> 500, user_id |-> 0]
        ELSE LET o == CapturarLogin(LoginIntento(tabla, email, password))
             IN  [status |-> o.status, user_id |-> o.user_id]

\* POST /api/auth/login
Login(payload, bd) ==
    /\ pc = "usuarios"
    /\ pedidas < MaxPeticiones
    /\ pedidas' = pedidas + 1
    /\ LET r == login(users, payload, bd)
       IN  IF r.status = 200
           THEN /\ TOKENS' = Put(TOKENS, Token(emitidos + 1),
                                 [user_id |-> r.user_id, expires_at |-> utcnow + 1])
                /\ emitidos' = emitidos + 1
                /\ respuesta_api' = [op |-> "login", authorization |-> None,
                                     payload |-> payload, status |-> 200,
                                     token |-> Token(emitidos + 1)]
           ELSE /\ UNCHANGED <<TOKENS, emitidos>>
                /\ respuesta_api' = [op |-> "login", authorization |-> None,
                                     payload |-> payload, status |-> r.status,
                                     token |-> <<>>]
    /\ UNCHANGED <<users, utcnow, otrosUsuarios, pc>>

\* get_current_user_from_token, admin_users.py 63-89: [status, user, tokens];
\* tokens is the token store after the call
get_current_user_from_token(tabla, tokens, ahora, authorization, bd) ==
    IF authorization = None \/ authorization = Str(<<>>)
       \/ ~StartsWith(Lower(authorization.s), S_bearer_)
    THEN [status |-> 401, user |-> None, tokens |-> tokens]
    ELSE LET token == TrasEspacio(authorization.s)
         IN  IF token \notin DOMAIN tokens
             THEN [status |-> 401, user |-> None, tokens |-> tokens]
             ELSE IF tokens[token].expires_at < ahora
             THEN [status |-> 401, user |-> None, tokens |-> Borrar(tokens, token)]
             ELSE IF ~bd
             THEN [status |-> 500, user |-> None, tokens |-> tokens]
             ELSE IF tokens[token].user_id \notin 1..Len(tabla)
             THEN [status |-> 401, user |-> None, tokens |-> tokens]
             ELSE LET id == tokens[token].user_id
                  IN  [status |-> 200,
                       user |-> [id |-> id, role_id |-> tabla[id].role_id,
                                 is_active |-> tabla[id].is_active,
                                 rol |-> ROLE_MAP(tabla[id].role_id)],
                       tokens |-> tokens]

\* require_admin, admin_users.py 92-97
require_admin(tabla, tokens, ahora, authorization, bd) ==
    LET r == get_current_user_from_token(tabla, tokens, ahora, authorization, bd)
    IN  IF r.status # 200 THEN r
        ELSE IF r.user.rol # "admin" THEN [r EXCEPT !.status = 403]
        ELSE r

\* a request to an admin endpoint is answered
ResponderAdmin(op, authorization, status, tokens) ==
    /\ respuesta_api' = [op |-> op, authorization |-> authorization, payload |-> None,
                         status |-> status, token |-> <<>>]
    /\ TOKENS' = tokens
    /\ pedidas' = pedidas + 1
    /\ UNCHANGED <<utcnow, emitidos, otrosUsuarios, pc>>

\* GET /api/admin/users, 109-143
ListUsers(authorization, bd) ==
    /\ pc = "usuarios"
    /\ pedidas < MaxPeticiones
    /\ LET r == require_admin(users, TOKENS, utcnow, authorization, bd)
       IN  ResponderAdmin("list", authorization, r.status, r.tokens)
    /\ UNCHANGED users

\* data.correo.lower().strip() if data.correo else None
CorreoDe(campo) == IF Texto(campo) = <<>> THEN <<>> ELSE Strip(Lower(campo.s))

\* the INSERT or UPDATE raises "Duplicate entry": correo is UNIQUE
Duplicado(tabla, id, correo) ==
    correo # <<>> /\ \E i \in 1..Len(tabla) : i # id /\ tabla[i].correo = correo

\* POST /api/admin/users, 146-203
CreateUser(authorization, data, bd) ==
    /\ pc = "usuarios"
    /\ pedidas < MaxPeticiones
    /\ Len(users) < MaxUsuarios
    /\ LET r == require_admin(users, TOKENS, utcnow, authorization, bd)
           correo == CorreoDe(data.correo)
       IN  IF r.status # 200
           THEN ResponderAdmin("create", authorization, r.status, r.tokens) /\ UNCHANGED users
           ELSE IF Len(data.password) < 6 \/ Len(data.password) > 72
           THEN ResponderAdmin("create", authorization, 400, r.tokens) /\ UNCHANGED users
           ELSE IF Duplicado(users, 0, correo)
           THEN ResponderAdmin("create", authorization, 400, r.tokens) /\ UNCHANGED users
           ELSE /\ users' = Append(users,
                       [correo |-> correo, password_hash |-> Bcrypt(data.password),
                        is_active |-> IF data.is_active = None THEN 1 ELSE data.is_active.v,
                        role_id |-> data.role_id, baja |-> FALSE])
                /\ ResponderAdmin("create", authorization, 201, r.tokens)

\* the row after UPDATE users SET <the fields given>, 211-250
Actualizada(fila, data) ==
    [correo |-> IF data.correo # None THEN CorreoDe(data.correo) ELSE fila.correo,
     password_hash |-> IF Texto(data.password) # <<>> THEN Bcrypt(data.password.s)
                       ELSE fila.password_hash,
     is_active |-> IF data.is_active # None THEN data.is_active.v ELSE fila.is_active,
     role_id |-> IF data.role_id # None THEN data.role_id.v ELSE fila.role_id,
     baja |-> IF data.is_active # None THEN FALSE ELSE fila.baja]

\* "if not fields", 244: no field of the table is given
NadaQueActualizar(data) ==
    /\ data.correo = None /\ data.role_id = None /\ data.is_active = None
    /\ Texto(data.password) = <<>>

\* PUT /api/admin/users/{user_id}, 206-288
UpdateUser(authorization, user_id, data, bd) ==
    /\ pc = "usuarios"
    /\ pedidas < MaxPeticiones
    /\ LET r == require_admin(users, TOKENS, utcnow, authorization, bd)
       IN  IF r.status # 200
           THEN ResponderAdmin("update", authorization, r.status, r.tokens) /\ UNCHANGED users
           ELSE IF Texto(data.password) # <<>>
                   /\ (Len(data.password.s) < 6 \/ Len(data.password.s) > 72)
           THEN ResponderAdmin("update", authorization, 400, r.tokens) /\ UNCHANGED users
           ELSE IF NadaQueActualizar(data)
           THEN ResponderAdmin("update", authorization, 400, r.tokens) /\ UNCHANGED users
           ELSE IF user_id \notin 1..Len(users)
           THEN ResponderAdmin("update", authorization, 404, r.tokens) /\ UNCHANGED users
           ELSE IF data.correo # None /\ Duplicado(users, user_id, CorreoDe(data.correo))
           THEN ResponderAdmin("update", authorization, 400, r.tokens) /\ UNCHANGED users
           ELSE /\ users' = [users EXCEPT ![user_id] = Actualizada(@, data)]
                /\ ResponderAdmin("update", authorization, 200, r.tokens)

\* DELETE /api/admin/users/{user_id}, 291-327
DisableUser(authorization, user_id, bd) ==
    /\ pc = "usuarios"
    /\ pedidas < MaxPeticiones
    /\ LET r == require_admin(users, TOKENS, utcnow, authorization, bd)
       IN  IF r.status # 200
           THEN ResponderAdmin("disable", authorization, r.status, r.tokens) /\ UNCHANGED users
           ELSE IF user_id \notin 1..Len(users)
           THEN ResponderAdmin("disable", authorization, 404, r.tokens) /\ UNCHANGED users
           ELSE /\ users' = [users EXCEPT ![user_id].is_active = 0, ![user_id].baja = TRUE]
                /\ ResponderAdmin("disable", authorization, 200, r.tokens)

\* twelve hours pass
Avanzar ==
    /\ pc = "usuarios"
    /\ pedidas < MaxPeticiones
    /\ utcnow' = utcnow + 1
    /\ pedidas' = pedidas + 1
    /\ UNCHANGED <<users, TOKENS, emitidos, respuesta_api, otrosUsuarios, pc>>

-----------------------------------------------------------------------------
(* Inputs of the API of users.                                             *)

S_a_x == <<"a", "@", "x">>
S_b_x == <<"b", "@", "x">>
S_e_x == <<"e", "@", "x">>
S_n_x == <<"n", "@", "x">>
S_Achs01 == <<"A", "c", "h", "s", "0", "1">>
S_Achs02 == <<"A", "c", "h", "s", "0", "2">>

\* the table at the start: two admins, and an ejecutivo seed_users.py
\* inserted whose password was not migrated
UsuariosIniciales ==
    << [correo |-> S_a_x, password_hash |-> Bcrypt(S_Achs01), is_active |-> 1,
        role_id |-> 99, baja |-> FALSE],
       [correo |-> S_b_x, password_hash |-> Bcrypt(S_Achs02), is_active |-> 1,
        role_id |-> 99, baja |-> FALSE],
       [correo |-> S_e_x, password_hash |-> PENDING_HASH, is_active |-> 1,
        role_id |-> 1, baja |-> FALSE] >>

PayloadsLogin ==
    { [email |-> e, password |-> pw] :
        e \in {None, Str(S_a_x), Str(<<" ", "B", "@", "X", " ">>), Str(S_e_x), Str(S_n_x)},
        pw \in {None, Str(S_Achs01), Str(S_Achs02)} }

\* the Authorization headers: none, another scheme, and the tokens issued
\* or still to be issued
CabecerasApi ==
    {None, Str(<<"T", "o", "k", "e", "n", " ", "t", "1">>)}
        \cup {Str(<<"B", "e", "a", "r", "e", "r", " ">> \o Token(k)) : k \in 1..(emitidos + 1)}

DatosCrear ==
    { [correo |-> Str(<<" ", "N", "@", "x">>), password |-> S_Achs01, role_id |-> 99,
       is_active |-> None],
      [correo |-> Str(S_a_x), password |-> S_Achs01, role_id |-> 1, is_active |-> None],
      [correo |-> None, password |-> <<"a", "b", "c">>, role_id |-> 1, is_active |-> [v |-> 0]] }

SinCambio == [correo |-> None, password |-> None, role_id |-> None, is_active |-> None]

DatosActualizar ==
    { SinCambio,
      [SinCambio EXCEPT !.is_active = [v |-> 1]],
      [SinCambio EXCEPT !.is_active = [v |-> 0]],
      [SinCambio EXCEPT !.role_id = [v |-> 1]],
      [SinCambio EXCEPT !.correo = Str(S_a_x)],
      [SinCambio EXCEPT !.password = Str(<<"a", "b", "c">>)] }

InitUsuarios ==
    /\ users = UsuariosIniciales
    /\ TOKENS = <<>>
    /\ utcnow = 0
    /\ emitidos = 0
    /\ respuesta_api = None
    /\ pedidas = 0
    /\ SoloUsuarios
    /\ pc = "usuarios"

NextUsuarios ==
    \/ Avanzar
    \/ \E payload \in PayloadsLogin, bd \in BOOLEAN : Login(payload, bd)
    \/ \E a \in CabecerasApi, bd \in BOOLEAN : ListUsers(a, bd)
    \/ \E a \in CabecerasApi, data \in DatosCrear, bd \in BOOLEAN : CreateUser(a, data, bd)
    \/ \E a \in CabecerasApi, id \in 1..(Len(users) + 1), data \in DatosActualizar,
          bd \in BOOLEAN : UpdateUser(a, id, data, bd)
    \/ \E a \in CabecerasApi, id \in 1..(Len(users) + 1), bd \in BOOLEAN : DisableUser(a, id, bd)

SpecUsuarios == InitUsuarios /\ [][NextUsuarios]_vars

-----------------------------------------------------------------------------
(* Claims about the API of users.                                          *)

\* a request of the given kinds is answered in this step
SeResponde(ops) ==
    /\ pedidas' = pedidas + 1
    /\ utcnow' = utcnow
    /\ respuesta_api'.op \in ops

\* the payload names a user who is not active and gives that user's password
ClaveCorrectaDeInactivo(payload) ==
    /\ payload.email # None /\ payload.password # None
    /\ \E i \in 1..Len(users) :
          /\ users[i].correo = Lower(Strip(payload.email.s))
          /\ users[i].password_hash = [esquema |-> "$2b$", de |-> payload.password.s]
          /\ users[i].is_active = 0

\* C25: a login with the correct password of a user whose is_active flag is
\* false is answered 403 "Usuario inactivo", not the 401 of bad credentials,
\* and no token is added to the token store.  (An answer 500 says the
\* database gave no connection.)
C25_InactiveLoginForbidden ==
    [][(SeResponde({"login"}) /\ ClaveCorrectaDeInactivo(respuesta_api'.payload)
          /\ respuesta_api'.status # 500)
          => (respuesta_api'.status = 403 /\ TOKENS' = TOKENS)]_vars

\* the header carries a token of the store that belongs to a user
\* disable_user has deactivated
TokenDeUsuarioDeBaja(authorization) ==
    /\ FormaBearer(authorization)
    /\ TokenDe(authorization) \in DOMAIN TOKENS
    /\ TOKENS[TokenDe(authorization)].user_id \in 1..Len(users)
    /\ users[TOKENS[TokenDe(authorization)].user_id].baja
    /\ users[TOKENS[TokenDe(authorization)].user_id].is_active = 0

\* C26: after disable_user has set a user's is_active to 0, no request with
\* a token issued to that user before the deactivation is accepted by the
\* admin endpoints list, create, update and disable.
C26_DisabledUserTokenRejected ==
    [][(SeResponde({"list", "create", "update", "disable"})
          /\ TokenDeUsuarioDeBaja(respuesta_api'.authorization))
          => respuesta_api'.status \in {401, 403}]_vars

====
